---- MODULE Spec2Model ----
(***************************************************************************)
(* ml2425/agent-capstone: the knowledge-extraction review workflow.        *)
(*                                                                         *)
(* State: the four relational tables (Source, PendingSource, Triplet,      *)
(* MCQRecord) and the process-wide draft cache pending_mcq_cache of        *)
(* src/app/ui/gradio_app.py.  One action per handler / service function.   *)
(* Rows are never deleted from Source, Triplet and MCQRecord, so a table   *)
(* is a sequence and a row's autoincrement id is its position.             *)
(*                                                                         *)
(* Python calls bind their keyword arguments before the callee runs: a     *)
(* keyword the callee's signature does not declare raises TypeError at the *)
(* call.  Signatures and call sites are modelled as sets of parameter      *)
(* names (UpsertParams, RunAgentParams and the *Kwargs sets) so that this  *)
(* part of every call is decided by the source, not assumed.               *)
(***************************************************************************)
EXTENDS Integers, Sequences, FiniteSets, TLC

\* Bound: the number of distinct bibliographic articles offered for intake,
\* hence of Source rows and of source ids.
MaxSources == 2

\* Bound: the page state the Next button may reach.
MaxPage == 4

\* Bound: the number of pending markers the listing is computed over.
MaxPending == 13

VARIABLES
    sources,    \* Source table: sequence of rows, id = position
    pending,    \* PendingSource table: source ids, in insertion order
    triplets,   \* Triplet table: sequence of rows, id = position
    mcqs,       \* MCQRecord table: sequence of rows, id = position
    cache,      \* pending_mcq_cache: dict source id -> draft entry
    pending_page, \* pending_page_state: the page of the pending listing
    last        \* the most recent handler call and what it returned

vars == <<sources, pending, triplets, mcqs, cache, pending_page, last>>

SourceIds == 1..MaxSources

Statuses == {"pending", "accepted", "rejected"}

\* Python None for string-valued columns / optional ids.
NoneStr == "<None>"
NullId == 0

----------------------------------------------------------------------------
\* Small helpers over sequences.

RECURSIVE SeqFilter(_, _)
SeqFilter(s, keep) ==
    IF s = <<>> THEN <<>>
    ELSE IF Head(s) \in keep THEN <<Head(s)>> \o SeqFilter(Tail(s), keep)
    ELSE SeqFilter(Tail(s), keep)

Range(s) == {s[i] : i \in 1..Len(s)}

\* str.strip() on the strings the model draws: whitespace-only text becomes
\* the empty string, other text is already trimmed.
Strip(s) == IF s = " " THEN "" ELSE IF s = " y" THEN "y" ELSE s

\* json.dumps of a list of strings: an injective encoding of the list.
JsonDumps(list) == [json |-> list]

\* _normalize_context_sentences on a list argument: strip every item and drop
\* the items that are empty after stripping; a falsy value gives [].
RECURSIVE _normalize_context_sentences(_)
_normalize_context_sentences(value) ==
    IF value = <<>> THEN <<>>
    ELSE IF Strip(Head(value)) = ""
         THEN _normalize_context_sentences(Tail(value))
         ELSE <<Strip(Head(value))>> \o _normalize_context_sentences(Tail(value))

----------------------------------------------------------------------------
\* Keyword binding of the two callees whose call sites pass extra keywords.

\* Mutant of UpsertParams: upsert_triplet also takes a status.
UpsertParamsWithStatus == {"db", "subject", "action", "object", "relation", "source_id", "context_sentences", "schema_valid", "status"}

\* def upsert_triplet(db, subject, action, object, relation, source_id,
\*                    context_sentences, schema_valid=False)
UpsertParams ==
    {"db", "subject", "action", "object", "relation", "source_id",
     "context_sentences", "schema_valid"}

\* Mutant of RunAgentParams: run_agent also takes the model id.
RunAgentParamsWithModel == {"new_message", "user_id", "session_id", "model_id"}

\* async def run_agent(new_message, user_id="default", session_id=None)
RunAgentParams == {"new_message", "user_id", "session_id"}

\* Keywords passed by handle_accept_mcq and _store_triplets_with_auto_accept.
UpsertCallKwargs == UpsertParams \cup {"status"}

\* Keywords passed by every run_agent call of gradio_app.py.
RunAgentCallKwargs == RunAgentParams \cup {"model_id"}

\* A call binds iff every keyword it passes is a declared parameter.
Binds(kwargs, params) == kwargs \subseteq params

----------------------------------------------------------------------------
\* Triplet store (src/app/services/kb_service.py).

\* The first row matching the 4-tuple (subject, action, object, source_id);
\* 0 when there is none (query(...).first() is None).
FindTriplet(trips, subject, action, object, source_id) ==
    LET hits == {i \in 1..Len(trips) :
                    /\ trips[i].subject = subject
                    /\ trips[i].action = action
                    /\ trips[i].object = object
                    /\ trips[i].source_id = source_id}
    IN IF hits = {} THEN 0 ELSE CHOOSE i \in hits : \A j \in hits : i <= j

\* Mutant of UpdateExisting: the context sentences are overwritten even when
\* the argument is empty.
UpdateExistingOverwrites(row, context_sentences, schema_valid) ==
    [row EXCEPT !.context_sentences = JsonDumps(context_sentences), !.schema_valid = schema_valid]

\* Mutant of UpdateExisting: the update also puts the row back to pending.
UpdateExistingResetsStatus(row, context_sentences, schema_valid) ==
    [row EXCEPT !.context_sentences = IF context_sentences # <<>> THEN JsonDumps(context_sentences) ELSE @,
                !.schema_valid = schema_valid, !.status = "pending"]

\* The branch of upsert_triplet taken when a row exists: overwrite the context
\* sentences when the argument is non-empty, overwrite schema_valid, commit.
UpdateExisting(row, context_sentences, schema_valid) ==
    [row EXCEPT
        !.context_sentences =
            IF context_sentences # <<>> THEN JsonDumps(context_sentences) ELSE @,
        !.schema_valid = schema_valid]

\* Mutant of NewTriplet: the row is inserted without a review status.
NewTripletNoStatus(id, subject, action, object, relation, source_id, context_sentences, schema_valid) ==
    [id |-> id, subject |-> subject, action |-> action, object |-> object,
     relation |-> relation, source_id |-> source_id,
     context_sentences |-> JsonDumps(context_sentences),
     schema_valid |-> schema_valid, status |-> NoneStr]

\* The row upsert_triplet inserts on a miss.
NewTriplet(id, subject, action, object, relation, source_id, context_sentences, schema_valid) ==
    [id |-> id, subject |-> subject, action |-> action, object |-> object,
     relation |-> relation, source_id |-> source_id,
     context_sentences |-> JsonDumps(context_sentences),
     schema_valid |-> schema_valid, status |-> "pending"]

\* upsert_triplet: the table afterwards and the id of the returned row.
upsert_triplet(trips, subject, action, object, relation, source_id, context_sentences, schema_valid) ==
    LET existing == FindTriplet(trips, subject, action, object, source_id)
    IN IF existing # 0
       THEN [triplets |-> [trips EXCEPT ![existing] =
                              UpdateExisting(@, context_sentences, schema_valid)],
             id |-> existing]
       ELSE [triplets |-> Append(trips,
                              NewTriplet(Len(trips) + 1, subject, action, object,
                                         relation, source_id, context_sentences,
                                         schema_valid)),
             id |-> Len(trips) + 1]

\* Mutant of update_triplet_status: a rejected triplet cannot be revived.
UpdateStatusGuarded(trips, triplet_id, status) ==
    IF triplet_id \in 1..Len(trips) /\ trips[triplet_id].status # "rejected"
    THEN [triplets |-> [trips EXCEPT ![triplet_id].status = status], ok |-> TRUE]
    ELSE [triplets |-> trips, ok |-> FALSE]

\* update_triplet_status: False when no row has the id, else set the status.
update_triplet_status(trips, triplet_id, status) ==
    IF triplet_id \in 1..Len(trips)
    THEN [triplets |-> [trips EXCEPT ![triplet_id].status = status], ok |-> TRUE]
    ELSE [triplets |-> trips, ok |-> FALSE]

\* query.limit(10)
DistractorLimit == 10

\* Mutant of query_triplets_for_distractors: an action given without object
\* filters too.
QueryFiltersActionAlone(trips, subject, action, object) ==
    LET hits == {i \in 1..Len(trips) :
                    /\ trips[i].status = "accepted"
                    /\ (subject \notin {NoneStr, ""} => trips[i].subject = subject)
                    /\ (action \notin {NoneStr, ""} => trips[i].action = action)}
        rows == SeqFilter([i \in 1..Len(trips) |-> i], hits)
    IN [k \in 1..(IF Len(rows) < DistractorLimit THEN Len(rows) ELSE DistractorLimit) |-> trips[rows[k]]]

\* query_triplets_for_distractors: the accepted rows, filtered by subject when
\* it is truthy and by action and object when both are; the first 10 in the
\* order of the table scan (the query has no ORDER BY: id order).
query_triplets_for_distractors(trips, subject, action, object) ==
    LET hits == {i \in 1..Len(trips) :
                    /\ trips[i].status = "accepted"
                    /\ (subject \notin {NoneStr, ""} => trips[i].subject = subject)
                    /\ ((action \notin {NoneStr, ""} /\ object \notin {NoneStr, ""})
                          => trips[i].action = action /\ trips[i].object = object)}
        rows == SeqFilter([i \in 1..Len(trips) |-> i], hits)
    IN [k \in 1..(IF Len(rows) < DistractorLimit THEN Len(rows) ELSE DistractorLimit) |-> trips[rows[k]]]

----------------------------------------------------------------------------
\* Python dicts whose keys may be absent: a record with every field plus the
\* set `keys` of the keys actually present.  An empty dict (and None, which
\* the code treats alike through `not x` and `x or y`) has keys = {}.

DictGet(d, k, default) == IF k \in d.keys THEN d[k] ELSE default

Truthy(d) == d.keys # {}

McqKeys == {"stem", "question", "options", "correct_option"}

EmptyMcq == [keys |-> {}, stem |-> "", question |-> "", options |-> <<>>, correct_option |-> 0]

Mcq5 == [keys |-> McqKeys, stem |-> "stem5", question |-> "q5", options |-> <<"A", "B", "C", "D", "E">>, correct_option |-> 0]

Mcq4 == [keys |-> McqKeys, stem |-> "stem4", question |-> "q4", options |-> <<"A", "B", "C", "D">>, correct_option |-> 1]

TripletKeys == {"subject", "action", "object", "relation", "context_sentences", "schema_valid"}

\* Triplet dicts as the generation / extraction calls return them.
TD(subject, object, relation, ctx, valid) ==
    [keys |-> TripletKeys, subject |-> subject, action |-> "a1", object |-> object,
     relation |-> relation, context_sentences |-> ctx, schema_valid |-> valid]

TD1 == TD("s1", "o1", "R1", <<>>, FALSE)

TD2 == [TD("s1", "o2", "R1", <<"c2", " ">>, FALSE) EXCEPT !.keys = TripletKeys \ {"relation"}]

Payload(keys, mcq, mcq_draft, trips, visual_prompt) ==
    [keys |-> keys, mcq |-> mcq, mcq_draft |-> mcq_draft, triplets |-> trips,
     visual_prompt |-> visual_prompt]

PayEmpty == Payload({}, EmptyMcq, EmptyMcq, <<>>, "")

PayA == Payload({"mcq", "triplets", "visual_prompt"}, Mcq5, EmptyMcq, <<TD1, TD2>>, "v1")

PayB == Payload({"mcq_draft", "triplets", "visual_prompt"}, EmptyMcq, Mcq4, <<TD2>>, "v2")

PayNoMcq == Payload({"triplets"}, EmptyMcq, EmptyMcq, <<TD1>>, "")

PayNoTriplets == Payload({"mcq"}, Mcq5, EmptyMcq, <<>>, "")

PayNoVisual == Payload({"mcq", "triplets"}, Mcq4, EmptyMcq, <<TD1>>, "")

\* GeminiResult(success, message, payload) as generate_mcq_with_triplets and
\* regenerate_mcq_with_feedback return it: a caught failure, or the JSON the
\* model answered with, whatever its shape.
GeminiResults ==
    {[success |-> FALSE, payload |-> PayEmpty]} \cup
    {[success |-> TRUE, payload |-> p] : p \in {PayA, PayB, PayNoMcq, PayNoTriplets, PayEmpty}}

----------------------------------------------------------------------------
\* Source registry and pending queue.

PMID(i) == <<"PMID:", i>>

\* Article dicts offered by the bibliographic search.
Articles == {[pubmed_id |-> i, title |-> "t1", abstract |-> "x"] : i \in 1..MaxSources}

\* The id of the Source row with external id source_id, 0 if none.
FindSource(srcs, source_id) ==
    LET hits == {i \in 1..Len(srcs) : srcs[i].source_id = source_id}
    IN IF hits = {} THEN 0 ELSE CHOOSE i \in hits : \A j \in hits : i <= j

\* register_pubmed_source: the table afterwards and the row's internal id.
register_pubmed_source(srcs, article) ==
    LET existing == FindSource(srcs, PMID(article.pubmed_id))
    IN IF existing # 0
       THEN [sources |-> srcs, id |-> existing]
       ELSE [sources |-> Append(srcs, [id |-> Len(srcs) + 1,
                                       source_id |-> PMID(article.pubmed_id),
                                       source_type |-> "pubmed",
                                       title |-> article.title,
                                       content |-> article.abstract]),
             id |-> Len(srcs) + 1]

SourceExists(srcs, id) == id \in 1..Len(srcs)

\* Uploaded files: the path gradio hands over (file.name) together with the
\* first 8 hex digits of its md5 digest, as a number.  Truncating the digest
\* is not injective: "a.pdf" and "c.pdf" stand for two names that agree on it.
PdfFiles == {[name |-> "a.pdf", md5 |-> 1], [name |-> "b.pdf", md5 |-> 2], [name |-> "c.pdf", md5 |-> 1]}

\* f"pdf_{hashlib.md5(filename.encode()).hexdigest()[:8]}"
PdfSourceId(file) == <<"pdf_", file.md5>>

\* File contents: what PdfReader makes of the bytes (unreadable bytes make it
\* raise) and the text of the pages.
PdfBytes == {[readable |-> TRUE, pages |-> "x"], [readable |-> TRUE, pages |-> " y"], [readable |-> FALSE, pages |-> ""]}

\* A file PdfReader reads whose pages carry no text (a scan without text
\* layer): extract_text() yields nothing but white space.
EmptyPdf == [readable |-> TRUE, pages |-> " "]

\* extract_pdf_text: the stripped text of the pages; any exception becomes
\* ValueError.
extract_pdf_text(pdf_bytes) ==
    IF pdf_bytes.readable THEN [raised |-> FALSE, text |-> Strip(pdf_bytes.pages)]
    ELSE [raised |-> TRUE, text |-> ""]

\* register_pdf_source: the text is extracted first, then the existence
\* check, then the insert.
register_pdf_source(srcs, file, pdf_bytes) ==
    LET content == extract_pdf_text(pdf_bytes)
        existing == FindSource(srcs, PdfSourceId(file))
    IN IF content.raised THEN [sources |-> srcs, id |-> 0, raised |-> TRUE]
       ELSE IF existing # 0 THEN [sources |-> srcs, id |-> existing, raised |-> FALSE]
       ELSE [sources |-> Append(srcs, [id |-> Len(srcs) + 1,
                                       source_id |-> PdfSourceId(file),
                                       source_type |-> "pdf",
                                       title |-> file.name,
                                       content |-> content.text]),
             id |-> Len(srcs) + 1, raised |-> FALSE]

\* Mutant of _ensure_pending_source: a marker is added without the lookup.
EnsurePendingAlwaysAdds(pend, id) == Append(pend, id)

\* _ensure_pending_source: add a marker unless one exists for the source.
_ensure_pending_source(pend, id) ==
    IF id \in Range(pend) THEN pend ELSE Append(pend, id)

\* Mutant of _remove_pending_source: the markers of all sources are deleted.
RemovePendingDropsAll(pend, id) == <<>>

\* _remove_pending_source: delete every marker of the source.
_remove_pending_source(pend, id) == SeqFilter(pend, Range(pend) \ {id})

\* _clear_pending_sources: delete every marker.
_clear_pending_sources(pend) == <<>>

\* Default page size of the pending listing.
PageSize == 6

Max(a, b) == IF a >= b THEN a ELSE b

Min(a, b) == IF a <= b THEN a ELSE b

\* math.ceil(total / page_size) for a non-negative total and a positive size.
Ceil(total, page_size) == (total + page_size - 1) \div page_size

\* ORDER BY PendingSource.created_at DESC: the markers newest first.
NewestFirst(pend) == [i \in 1..Len(pend) |-> pend[Len(pend) + 1 - i]]

\* OFFSET offset LIMIT limit over a result list.
OffsetLimit(rows, offset, limit) ==
    IF offset >= Len(rows) THEN <<>>
    ELSE SubSeq(rows, offset + 1, Min(Len(rows), offset + limit))

\* Mutant of _list_pending_sources: the requested page is not clamped.
ListPendingUnclamped(srcs, pend, page, page_size) ==
    LET total == Len(pend)
        total_pages == IF total # 0 THEN Max(1, Ceil(total, page_size)) ELSE 1
        joined == SeqFilter(NewestFirst(pend), 1..Len(srcs))
    IN [entries |-> OffsetLimit(joined, (Max(1, page) - 1) * page_size, page_size),
        total_pages |-> total_pages, page |-> Max(1, page)]

\* _list_pending_sources: the entries of the clamped page, the number of
\* pages, and the clamped page number (a local the function does not return).
_list_pending_sources(srcs, pend, page, page_size) ==
    LET total == Len(pend)
        total_pages == IF total # 0 THEN Max(1, Ceil(total, page_size)) ELSE 1
        clamped == Max(1, Min(page, total_pages))
        joined == SeqFilter(NewestFirst(pend), 1..Len(srcs))
    IN [entries |-> OffsetLimit(joined, (clamped - 1) * page_size, page_size),
        total_pages |-> total_pages, page |-> clamped]

\* render_pending_sources: the entries shown, the page number returned as the
\* new page state and the "Page p/n" line.  The page it reports is its own
\* argument, not the page _list_pending_sources clamped to.
render_pending_sources(srcs, pend, page, page_size) ==
    LET l == _list_pending_sources(srcs, pend, page, page_size)
    IN IF l.entries = <<>>
       THEN [entries |-> <<>>, page |-> 1, info |-> <<1, 1>>]
       ELSE [entries |-> l.entries, page |-> page, info |-> <<page, l.total_pages>>]

\* refresh_pending_default
refresh_pending_default(srcs, pend) == render_pending_sources(srcs, pend, 1, PageSize)

\* Mutant of DictPop: the entry stays.
DictPopKeeps(d, k) == d

\* dict.pop(key, None)
DictPop(d, k) == [x \in (DOMAIN d) \ {k} |-> d[x]]

\* d[key] = value
DictPut(d, k, v) == [x \in (DOMAIN d) \cup {k} |-> IF x = k THEN v ELSE d[x]]

NoArg == [none |-> TRUE]

Returned(op, src, res, arg) == [op |-> op, src |-> src, res |-> res, arg |-> arg]

\* _process_article_selection: register the article, queue it for review and
\* drop any draft cached for it; the selection event then refreshes the
\* pending listing (selection_event.then(refresh_pending_default)).
SelectArticle(article) ==
    LET reg == register_pubmed_source(sources, article)
    IN /\ sources' = reg.sources
       /\ pending' = _ensure_pending_source(pending, reg.id)
       /\ cache' = DictPop(cache, reg.id)
       /\ last' = Returned("select_article", reg.id, "queued",
                           [article |-> article, existing |-> FindSource(sources, PMID(article.pubmed_id))])
       /\ pending_page' = refresh_pending_default(sources', pending').page
       /\ UNCHANGED <<triplets, mcqs>>

\* handle_pending_clear
PendingClear ==
    /\ pending' = _clear_pending_sources(pending)
    /\ pending_page' = render_pending_sources(sources, pending', 1, PageSize).page
    /\ last' = Returned("pending_clear", 0, "cleared", NoArg)
    /\ UNCHANGED <<sources, triplets, mcqs, cache>>

\* handle_pdf_upload with a file: register, queue, drop any cached draft; an
\* exception is reported as text.  The upload event then refreshes the
\* pending listing (upload_event.then(refresh_pending_default)).
PdfUpload(file, pdf_bytes) ==
    LET reg == register_pdf_source(sources, file, pdf_bytes)
        arg == [file |-> file, existing |-> FindSource(sources, PdfSourceId(file)), pdf_bytes |-> pdf_bytes]
    IN /\ IF reg.raised
          THEN /\ last' = Returned("pdf_upload", 0, "Error selecting PDF", arg)
               /\ UNCHANGED <<sources, pending, cache>>
          ELSE /\ sources' = reg.sources
               /\ pending' = _ensure_pending_source(pending, reg.id)
               /\ cache' = DictPop(cache, reg.id)
               /\ last' = Returned("pdf_upload", reg.id, "queued", arg)
       /\ pending_page' = refresh_pending_default(sources', pending').page
       /\ UNCHANGED <<triplets, mcqs>>

\* handle_pending_navigation(direction, current_page) on the page state.
handle_pending_navigation(srcs, pend, direction, current_page) ==
    render_pending_sources(srcs, pend, Max(1, current_page + direction), PageSize)

\* The Prev / Next buttons.
PendingNavigation(direction) ==
    LET r == handle_pending_navigation(sources, pending, direction, pending_page)
    IN /\ pending_page' = r.page
       /\ last' = Returned("pending_navigation", 0, "rendered",
                           [entries |-> r.entries, direction |-> direction, page |-> r.page, info |-> r.info])
       /\ UNCHANGED <<sources, pending, triplets, mcqs, cache>>

\* _remove_pending_source called for a source id.
RemovePending(source_id) ==
    /\ pending' = _remove_pending_source(pending, source_id)
    /\ last' = Returned("remove_pending", source_id, "None", NoArg)
    /\ UNCHANGED <<sources, triplets, mcqs, cache, pending_page>>

\* _list_pending_sources(page, page_size)
ListPending(page, page_size) ==
    LET l == _list_pending_sources(sources, pending, page, page_size)
    IN /\ last' = Returned("list_pending", 0, "listed",
                           [page |-> page, page_size |-> page_size, entries |-> l.entries, total_pages |-> l.total_pages])
       /\ UNCHANGED <<sources, pending, triplets, mcqs, cache, pending_page>>

----------------------------------------------------------------------------
\* Draft cache: staging and refinement.

\* The cache entry both draft handlers build from a payload.
DraftEntry(mcq_draft, trips, visual_prompt) ==
    [mcq |-> mcq_draft, visual |-> [optimized_visual_prompt |-> visual_prompt], triplets |-> trips]

\* payload.get("mcq") or payload.get("mcq_draft")
PayloadMcq(payload) ==
    IF Truthy(DictGet(payload, "mcq", EmptyMcq))
    THEN DictGet(payload, "mcq", EmptyMcq)
    ELSE DictGet(payload, "mcq_draft", EmptyMcq)

\* Mutant of StageFrom: a visual prompt missing from the payload is taken
\* from the draft already cached.
StageFromKeepsVisual(c, source_id, result) ==
    IF ~result.success \/ ~Truthy(result.payload)
    THEN [cache |-> c, res |-> "generation failed"]
    ELSE LET mcq_draft == PayloadMcq(result.payload)
             trips == DictGet(result.payload, "triplets", <<>>)
             prior == IF source_id \in DOMAIN c THEN c[source_id].visual.optimized_visual_prompt ELSE ""
             visual_prompt == DictGet(result.payload, "visual_prompt", prior)
         IN IF ~Truthy(mcq_draft) \/ trips = <<>>
            THEN [cache |-> c, res |-> "generation failed"]
            ELSE [cache |-> DictPut(c, source_id, DraftEntry(mcq_draft, trips, visual_prompt)),
                  res |-> "draft staged"]

\* Mutant of StageFrom: a failed call discards the draft already cached.
StageFromDropsOnFailure(c, source_id, result) ==
    IF ~result.success \/ ~Truthy(result.payload)
    THEN [cache |-> DictPop(c, source_id), res |-> "generation failed"]
    ELSE LET mcq_draft == PayloadMcq(result.payload)
             trips == DictGet(result.payload, "triplets", <<>>)
             visual_prompt == DictGet(result.payload, "visual_prompt", "")
         IN IF ~Truthy(mcq_draft) \/ trips = <<>>
            THEN [cache |-> DictPop(c, source_id), res |-> "generation failed"]
            ELSE [cache |-> DictPut(c, source_id, DraftEntry(mcq_draft, trips, visual_prompt)),
                  res |-> "draft staged"]

\* The part shared by generate_mcq_for_pending_article and apply_mcq_feedback
\* after the generation call returned `result`: the cache afterwards and the
\* outcome reported.
StageFrom(c, source_id, result) ==
    IF ~result.success \/ ~Truthy(result.payload)
    THEN [cache |-> c, res |-> "generation failed"]
    ELSE LET mcq_draft == PayloadMcq(result.payload)
             trips == DictGet(result.payload, "triplets", <<>>)
             visual_prompt == DictGet(result.payload, "visual_prompt", "")
         IN IF ~Truthy(mcq_draft) \/ trips = <<>>
            THEN [cache |-> c, res |-> "generation failed"]
            ELSE [cache |-> DictPut(c, source_id, DraftEntry(mcq_draft, trips, visual_prompt)),
                  res |-> "draft staged"]

\* What a draft handler reports of its call: the payload it staged, nothing
\* of a result it discarded.
Staged(st, result) == IF st.res = "draft staged" THEN [result |-> result] ELSE NoArg

\* generate_mcq_for_pending_article
GenerateDraft(source_id, result) ==
    /\ IF ~SourceExists(sources, source_id)
       THEN /\ cache' = cache
            /\ last' = Returned("generate_draft", source_id, "Article not found.", NoArg)
       ELSE LET st == StageFrom(cache, source_id, result)
            IN /\ cache' = st.cache
               /\ last' = Returned("generate_draft", source_id, st.res, Staged(st, result))
    /\ UNCHANGED <<sources, pending, triplets, mcqs, pending_page>>

\* generate_mcq_for_pending_article in two steps, up to the generation call
\* and from its return.  The handler opens its session with SessionLocal(),
\* reads the Source through it (which begins a transaction: autocommit is
\* off) and closes it only in the finally clause, after the call returned.
AwaitingGeneration == "awaiting generate_mcq_with_triplets"

\* The handler's session at the moment generate_mcq_with_triplets is called.
DbAtDraftCall == "in transaction"

GenerateDraftCall(source_id) ==
    /\ last.res # AwaitingGeneration
    /\ IF ~SourceExists(sources, source_id)
       THEN last' = Returned("generate_draft", source_id, "Article not found.", NoArg)
       ELSE last' = Returned("generate_draft", source_id, AwaitingGeneration, [db |-> DbAtDraftCall])
    /\ UNCHANGED <<sources, pending, triplets, mcqs, cache, pending_page>>

GenerateDraftReturn(result) ==
    /\ last.op = "generate_draft"
    /\ last.res = AwaitingGeneration
    /\ LET st == StageFrom(cache, last.src, result)
       IN /\ cache' = st.cache
          /\ last' = Returned("generate_draft", last.src, st.res, Staged(st, result))
    /\ UNCHANGED <<sources, pending, triplets, mcqs, pending_page>>

\* Mutant of RegenPayload: the cached visual prompt is not handed on.
RegenPayloadNoVisual(c, source_id) ==
    IF source_id \in DOMAIN c
    THEN [mcq |-> c[source_id].mcq, triplets |-> c[source_id].triplets, visual_prompt |-> ""]
    ELSE [mcq |-> EmptyMcq, triplets |-> <<>>, visual_prompt |-> ""]

\* The previous draft handed to regenerate_mcq_with_feedback.
RegenPayload(c, source_id) ==
    IF source_id \in DOMAIN c
    THEN [mcq |-> c[source_id].mcq, triplets |-> c[source_id].triplets,
          visual_prompt |-> c[source_id].visual.optimized_visual_prompt]
    ELSE [mcq |-> EmptyMcq, triplets |-> <<>>, visual_prompt |-> ""]

\* apply_mcq_feedback (with non-empty feedback text)
ApplyFeedback(source_id, result) ==
    /\ IF ~SourceExists(sources, source_id)
       THEN /\ cache' = cache
            /\ last' = Returned("apply_feedback", source_id, "Article not found.", NoArg)
       ELSE LET st == StageFrom(cache, source_id, result)
            IN /\ cache' = st.cache
               /\ last' = Returned("apply_feedback", source_id, st.res,
                                   [sent |-> RegenPayload(cache, source_id), staged |-> Staged(st, result)])
    /\ UNCHANGED <<sources, pending, triplets, mcqs, pending_page>>

----------------------------------------------------------------------------
\* Draft acceptance (handle_accept_mcq).

\* Mutant of PersistDraftTriplets: the first triplet is written and committed
\* before the call's keywords are rejected.
PersistDraftTripletsLate(trips, tds, source_id, primary, kwargs) ==
    IF tds = <<>> THEN [triplets |-> trips, primary |-> primary, raised |-> FALSE]
    ELSE LET td == Head(tds)
             up == upsert_triplet(trips, Strip(td.subject), Strip(td.action), Strip(td.object), Strip(td.relation), source_id, _normalize_context_sentences(td.context_sentences), TRUE)
         IN [triplets |-> up.triplets, primary |-> up.id, raised |-> TRUE]

\* The loop "for triplet_data in triplets: stored_triplet = upsert_triplet(...,
\* schema_valid=True, status="accepted")".  Each call that binds commits its
\* own transaction inside upsert_triplet; a call that does not bind raises
\* TypeError before upsert_triplet runs, and the exception leaves the handler
\* (it has no except clause) with the rows committed so far.
\* Yields the table afterwards, the primary triplet id and whether it raised.
RECURSIVE PersistDraftTriplets(_, _, _, _, _)
PersistDraftTriplets(trips, tds, source_id, primary, kwargs) ==
    IF tds = <<>> THEN [triplets |-> trips, primary |-> primary, raised |-> FALSE]
    ELSE IF ~Binds(kwargs, UpsertParams)
    THEN [triplets |-> trips, primary |-> primary, raised |-> TRUE]
    ELSE LET td == Head(tds)
             up == upsert_triplet(trips,
                                  Strip(DictGet(td, "subject", "")),
                                  Strip(DictGet(td, "action", "")),
                                  Strip(DictGet(td, "object", "")),
                                  Strip(DictGet(td, "relation", "INDICATES")),
                                  source_id,
                                  _normalize_context_sentences(DictGet(td, "context_sentences", <<>>)),
                                  TRUE)
         IN PersistDraftTriplets(up.triplets, Tail(tds), source_id,
                                 IF primary = NullId THEN up.id ELSE primary, kwargs)

\* The MCQRecord row handle_accept_mcq builds from the draft.
AcceptedMcq(id, mcq_draft, source_id, primary) ==
    [id |-> id,
     stem |-> DictGet(mcq_draft, "stem", ""),
     question |-> DictGet(mcq_draft, "question", ""),
     options |-> JsonDumps(DictGet(mcq_draft, "options", <<>>)),
     correct_option |-> DictGet(mcq_draft, "correct_option", 0),
     source_id |-> source_id,
     triplet_id |-> primary,
     visual_prompt |-> NoneStr,
     visual_triplet |-> NoneStr,
     status |-> "pending"]

\* Mutant of AcceptRejected: the draft and the pending marker are dropped
\* before the checks, so a rejected call still dequeues.
AcceptRejectedDequeues(source_id, message, arg) ==
    /\ last' = Returned("accept_mcq", source_id, message, arg)
    /\ cache' = DictPop(cache, source_id)
    /\ pending' = _remove_pending_source(pending, source_id)
    /\ UNCHANGED <<sources, triplets, mcqs>>
    /\ pending_page' = refresh_pending_default(sources', pending').page

\* The early returns of handle_accept_mcq: a message, and nothing written.
AcceptRejected(source_id, message, arg) ==
    /\ last' = Returned("accept_mcq", source_id, message, arg)
    /\ UNCHANGED <<sources, pending, triplets, mcqs, cache>>
    /\ pending_page' = refresh_pending_default(sources', pending').page

\* handle_accept_mcq past its checks: persist the draft's triplets, then the
\* MCQRecord, then drop the draft and the pending marker, then the optional
\* visual prompt override.
AcceptPersist(source_id, visual_prompt, cache_entry, arg) ==
    LET p == PersistDraftTriplets(triplets, cache_entry.triplets, source_id, NullId, UpsertCallKwargs)
        mcq == AcceptedMcq(Len(mcqs) + 1, cache_entry.mcq, source_id, p.primary)
    IN IF p.raised
       THEN /\ triplets' = p.triplets
            /\ last' = Returned("accept_mcq", source_id, "TypeError", arg)
            /\ UNCHANGED <<sources, pending, mcqs, cache>>
            /\ pending_page' = refresh_pending_default(sources', pending').page
       ELSE /\ triplets' = p.triplets
            /\ mcqs' = Append(mcqs, IF Strip(visual_prompt) # ""
                                    THEN [mcq EXCEPT !.visual_prompt = Strip(visual_prompt)]
                                    ELSE mcq)
            /\ cache' = DictPop(cache, source_id)
            /\ pending' = _remove_pending_source(pending, source_id)
            /\ last' = Returned("accept_mcq", source_id, "MCQ accepted and stored", arg)
            /\ UNCHANGED sources
            /\ pending_page' = refresh_pending_default(sources', pending').page

NoDraftMessage == "Generate an MCQ before accepting."

BadOptionsMessage == "MCQ draft must contain exactly 5 options before acceptance."

\* handle_accept_mcq(source_choice, visual_prompt); the call's argument record
\* keeps the draft the handler read from the cache (none: the empty list).
\* The click event refreshes the pending listing afterwards, whatever the
\* handler did (accept_mcq_btn.click(...).then(refresh_pending_default)).
AcceptMcq(source_id, visual_prompt) ==
    IF source_id \notin DOMAIN cache
    THEN AcceptRejected(source_id, NoDraftMessage, [draft |-> <<>>])
    ELSE IF ~SourceExists(sources, source_id)
    THEN AcceptRejected(source_id, "Article not found.", [draft |-> <<cache[source_id]>>])
    ELSE IF Len(DictGet(cache[source_id].mcq, "options", <<>>)) # 5
    THEN AcceptRejected(source_id, BadOptionsMessage, [draft |-> <<cache[source_id]>>])
    ELSE AcceptPersist(source_id, visual_prompt, cache[source_id], [draft |-> <<cache[source_id]>>])

\* handle_accept_mcq running on a worker thread next to apply_mcq_feedback
\* (both are plain functions, which the UI runs concurrently): the handler
\* from its read of the cache, and from there to its end.
Accepting == "accepting"

\* cache_entry = pending_mcq_cache.get(source_id)
AcceptRead(source_id) ==
    /\ last.res # Accepting
    /\ IF source_id \notin DOMAIN cache
       THEN AcceptRejected(source_id, NoDraftMessage, [draft |-> <<>>])
       ELSE /\ last' = Returned("accept_mcq", source_id, Accepting, [draft |-> <<cache[source_id]>>, refined |-> FALSE])
            /\ UNCHANGED <<sources, pending, triplets, mcqs, cache, pending_page>>

\* apply_mcq_feedback for the source whose acceptance is under way: its
\* assignment to pending_mcq_cache[source_id] happens between the other
\* handler's read and its pop.
FeedbackWhileAccepting(result) ==
    /\ last.op = "accept_mcq"
    /\ last.res = Accepting
    /\ SourceExists(sources, last.src)
    /\ LET st == StageFrom(cache, last.src, result)
       IN /\ cache' = st.cache
          /\ last' = [last EXCEPT !.arg.refined = @ \/ st.res = "draft staged"]
    /\ UNCHANGED <<sources, pending, triplets, mcqs, pending_page>>

\* The rest of handle_accept_mcq, working on the entry it read.
AcceptWrite(visual_prompt) ==
    /\ last.op = "accept_mcq"
    /\ last.res = Accepting
    /\ LET cache_entry == last.arg.draft[1]
           arg == [draft |-> last.arg.draft, refined |-> last.arg.refined]
       IN IF ~SourceExists(sources, last.src)
          THEN AcceptRejected(last.src, "Article not found.", arg)
          ELSE IF Len(DictGet(cache_entry.mcq, "options", <<>>)) # 5
          THEN AcceptRejected(last.src, BadOptionsMessage, arg)
          ELSE AcceptPersist(last.src, visual_prompt, cache_entry, arg)

----------------------------------------------------------------------------
\* Direct calls of the knowledge-base service.

\* upsert_triplet called with exactly its declared parameters.
Upsert(subject, object, relation, source_id, context_sentences, schema_valid) ==
    LET up == upsert_triplet(triplets, subject, "a1", object, relation, source_id, context_sentences, schema_valid)
    IN /\ triplets' = up.triplets
       /\ last' = Returned("upsert", source_id, "row",
                           [id |-> up.id, subject |-> subject, object |-> object,
                            relation |-> relation, schema_valid |-> schema_valid,
                            context_sentences |-> context_sentences])
       /\ UNCHANGED <<sources, pending, mcqs, cache, pending_page>>

\* update_triplet_status(db, triplet_id, status)
SetStatus(triplet_id, status) ==
    LET r == update_triplet_status(triplets, triplet_id, status)
    IN /\ triplets' = r.triplets
       /\ last' = Returned("set_status", 0, IF r.ok THEN "True" ELSE "False",
                           [id |-> triplet_id, status |-> status,
                            was |-> IF triplet_id \in 1..Len(triplets) THEN triplets[triplet_id].status ELSE NoneStr])
       /\ UNCHANGED <<sources, pending, mcqs, cache, pending_page>>

----------------------------------------------------------------------------
\* The agent pipeline behind run_agent, and the automated workflow.

VisualPayload(keys, prompt, vtriplet) == [keys |-> keys, optimized_visual_prompt |-> prompt, visual_triplet |-> vtriplet]

EmptyVisual == VisualPayload({}, NoneStr, NoneStr)

AgentPayload(keys, mcq_draft, current_mcqs, visual_payload, extracted) ==
    [keys |-> keys, mcq_draft |-> mcq_draft, current_mcqs |-> current_mcqs,
     visual_payload |-> visual_payload, extracted_triplets |-> extracted]

EmptyAgentPayload == AgentPayload({}, EmptyMcq, EmptyMcq, EmptyVisual, <<>>)

\* What the agent pipeline answers when it is reached: an exception, a final
\* text answer (run_agent returns the str) or an event whose text is JSON.
AgentRaises == [kind |-> "raises", payload |-> EmptyAgentPayload]

AgentText == [kind |-> "text", payload |-> EmptyAgentPayload]

AgentEvent(payload) == [kind |-> "event", payload |-> payload]

\* Answers to an MCQ-generation prompt.
GenValid == AgentEvent(AgentPayload({"mcq_draft", "visual_payload"}, Mcq5, EmptyMcq, VisualPayload({"optimized_visual_prompt"}, "v1", NoneStr), <<>>))

GenCurrent == AgentEvent(AgentPayload({"current_mcqs"}, EmptyMcq, Mcq5, EmptyVisual, <<>>))

GenShort == AgentEvent(AgentPayload({"mcq_draft"}, Mcq4, EmptyMcq, EmptyVisual, <<>>))

GenResults == {AgentRaises, AgentText, GenValid, GenCurrent, GenShort}

\* Answers to an extraction prompt.
E1 == TD("s1", "o1", "R1", <<"c1">>, TRUE)

E2 == TD("s1", "o1", "R1", <<"c1">>, FALSE)

E3 == TD("s1", "o2", "R2", <<>>, FALSE)

E4 == TD("s1", "o1", "R2", <<"c2">>, FALSE)

EMalformed == TD(" ", "o1", "R1", <<"c1">>, TRUE)

ExtractedLists == {<<>>, <<E1>>, <<E2>>, <<E4>>, <<EMalformed, E1>>, <<E2, E3>>}

ExtractResults == {AgentRaises, AgentText} \cup {AgentEvent(AgentPayload({"extracted_triplets"}, EmptyMcq, EmptyMcq, EmptyVisual, x)) : x \in ExtractedLists}

\* await run_agent(**kwargs): TypeError at the call when a keyword is not a
\* parameter of run_agent, otherwise whatever the pipeline answers.
run_agent(kwargs, answer) ==
    IF ~Binds(kwargs, RunAgentParams) THEN [kind |-> "raises", payload |-> EmptyAgentPayload] ELSE answer

\* _coerce_result_to_dict: a str has no content and gives {}, an event gives
\* the JSON object of its text.
_coerce_result_to_dict(result) ==
    IF result.kind = "event" THEN result.payload ELSE EmptyAgentPayload

\* The 5-field duplicate lookup of _store_triplets_with_auto_accept.
IsDuplicate(trips, subject, action, object, relation, source_id) ==
    \E i \in 1..Len(trips) :
        /\ trips[i].subject = subject /\ trips[i].action = action
        /\ trips[i].object = object /\ trips[i].relation = relation
        /\ trips[i].source_id = source_id

\* The accepted-anywhere lookup of _store_triplets_with_auto_accept.
HasAcceptedMatch(trips, subject, action, object, relation) ==
    \E i \in 1..Len(trips) :
        /\ trips[i].subject = subject /\ trips[i].action = action
        /\ trips[i].object = object /\ trips[i].relation = relation
        /\ trips[i].status = "accepted"

\* TripletAutoProcessResult plus the table and whether the loop raised.
StoreResult(trips, accepted, pend, skipped, errors, raised) ==
    [triplets |-> trips, accepted |-> accepted, pending |-> pend,
     skipped_duplicates |-> skipped, errors |-> errors, raised |-> raised]

\* _store_triplets_with_auto_accept: the loop over the extracted dicts, from
\* the result accumulated so far.
RECURSIVE StoreLoop(_, _, _, _)
StoreLoop(acc, extracted, source_id, kwargs) ==
    IF extracted = <<>> THEN acc
    ELSE LET td == Head(extracted)
             subject == Strip(DictGet(td, "subject", ""))
             action == Strip(DictGet(td, "action", ""))
             obj == Strip(DictGet(td, "object", ""))
             relation == Strip(DictGet(td, "relation", ""))
             schema_valid == DictGet(td, "schema_valid", FALSE)
             status == IF schema_valid \/ HasAcceptedMatch(acc.triplets, subject, action, obj, relation)
                       THEN "accepted" ELSE "pending"
         IN IF "" \in {subject, action, obj, relation}
            THEN StoreLoop([acc EXCEPT !.errors = @ + 1], Tail(extracted), source_id, kwargs)
            ELSE IF IsDuplicate(acc.triplets, subject, action, obj, relation, source_id)
            THEN StoreLoop([acc EXCEPT !.skipped_duplicates = @ + 1], Tail(extracted), source_id, kwargs)
            ELSE IF ~Binds(kwargs, UpsertParams)
            THEN [acc EXCEPT !.raised = TRUE]
            ELSE LET up == upsert_triplet(acc.triplets, subject, action, obj, relation, source_id,
                                          _normalize_context_sentences(DictGet(td, "context_sentences", <<>>)),
                                          schema_valid)
                     nxt == [acc EXCEPT !.triplets = up.triplets,
                                        !.accepted = IF status = "accepted" THEN Append(@, up.id) ELSE @,
                                        !.pending = IF status = "accepted" THEN @ ELSE Append(@, up.id)]
                 IN StoreLoop(nxt, Tail(extracted), source_id, kwargs)

_store_triplets_with_auto_accept(trips, source_id, extracted) ==
    StoreLoop(StoreResult(trips, <<>>, <<>>, 0, 0, FALSE), extracted, source_id, UpsertCallKwargs)

\* The MCQRecord row _auto_generate_mcqs_for_triplets builds.
GeneratedMcq(id, mcq_draft, visual_payload, source_id, triplet_id) ==
    [id |-> id,
     stem |-> DictGet(mcq_draft, "stem", ""),
     question |-> DictGet(mcq_draft, "question", ""),
     options |-> JsonDumps(DictGet(mcq_draft, "options", <<>>)),
     correct_option |-> DictGet(mcq_draft, "correct_option", 0),
     source_id |-> source_id,
     triplet_id |-> triplet_id,
     visual_prompt |-> DictGet(visual_payload, "optimized_visual_prompt", NoneStr),
     visual_triplet |-> DictGet(visual_payload, "visual_triplet", NoneStr),
     status |-> "pending"]

HasMcqFor(records, triplet_id) == \E i \in 1..Len(records) : records[i].triplet_id = triplet_id

\* _auto_generate_mcqs_for_triplets: the loop over the triplet ids; answers
\* maps each triplet id to what the pipeline would answer for its prompt.
RECURSIVE GenerateLoop(_, _, _, _, _)
GenerateLoop(acc, ids, source_id, answers, kwargs) ==
    IF ids = <<>> THEN acc
    ELSE LET tid == Head(ids)
             result == run_agent(kwargs, answers[tid])
             payload == _coerce_result_to_dict(result)
             mcq_draft == IF Truthy(DictGet(payload, "mcq_draft", EmptyMcq))
                          THEN DictGet(payload, "mcq_draft", EmptyMcq)
                          ELSE DictGet(payload, "current_mcqs", EmptyMcq)
             visual_payload == DictGet(payload, "visual_payload", EmptyVisual)
             options == DictGet(mcq_draft, "options", <<>>)
         IN IF HasMcqFor(acc.mcqs, tid)
            THEN GenerateLoop(acc, Tail(ids), source_id, answers, kwargs)
            ELSE IF result.kind = "raises"
            THEN GenerateLoop(acc, Tail(ids), source_id, answers, kwargs)
            ELSE IF ~Truthy(mcq_draft) \/ Len(options) # 5
            THEN GenerateLoop(acc, Tail(ids), source_id, answers, kwargs)
            ELSE GenerateLoop([mcqs |-> Append(acc.mcqs, GeneratedMcq(Len(acc.mcqs) + 1, mcq_draft, visual_payload, source_id, tid)),
                               generated |-> acc.generated + 1],
                              Tail(ids), source_id, answers, kwargs)

_auto_generate_mcqs_for_triplets(records, ids, source_id, answers) ==
    GenerateLoop([mcqs |-> records, generated |-> 0], ids, source_id, answers, RunAgentCallKwargs)

\* Ids of the accepted triplets of a source, in id order.
RECURSIVE AcceptedIdsFrom(_, _, _)
AcceptedIdsFrom(trips, source_id, i) ==
    IF i > Len(trips) THEN <<>>
    ELSE IF trips[i].source_id = source_id /\ trips[i].status = "accepted"
         THEN <<i>> \o AcceptedIdsFrom(trips, source_id, i + 1)
         ELSE AcceptedIdsFrom(trips, source_id, i + 1)

AcceptedIds(trips, source_id) == AcceptedIdsFrom(trips, source_id, 1)

\* The triplet ids whose prompt the pipeline would answer with a valid
\* 5-option MCQ.
WouldAnswerValid(answers) ==
    {t \in DOMAIN answers : answers[t].kind = "event" /\
        LET p == answers[t].payload
            m == IF Truthy(DictGet(p, "mcq_draft", EmptyMcq)) THEN p.mcq_draft ELSE DictGet(p, "current_mcqs", EmptyMcq)
        IN Len(DictGet(m, "options", <<>>)) = 5}

\* _store_triplets_with_auto_accept called on a registered source.
StoreTriplets(source_id, extracted) ==
    /\ SourceExists(sources, source_id)
    /\ LET r == _store_triplets_with_auto_accept(triplets, source_id, extracted)
       IN /\ triplets' = r.triplets
          /\ last' = Returned("store_triplets", source_id,
                              IF r.raised THEN "TypeError" ELSE "returned",
                              [extracted |-> extracted, accepted |-> r.accepted, pending |-> r.pending,
                               skipped_duplicates |-> r.skipped_duplicates, errors |-> r.errors,
                               before |-> triplets])
    /\ UNCHANGED <<sources, pending, mcqs, cache, pending_page>>

\* handle_generate_mcqs_for_article
GenerateMcqsForArticle(source_id, answers) ==
    /\ IF ~SourceExists(sources, source_id)
       THEN /\ mcqs' = mcqs
            /\ last' = Returned("generate_mcqs", source_id, "Article not found.", NoArg)
       ELSE IF AcceptedIds(triplets, source_id) = <<>>
       THEN /\ mcqs' = mcqs
            /\ last' = Returned("generate_mcqs", source_id, "No accepted triplets for this article yet.", NoArg)
       ELSE LET g == _auto_generate_mcqs_for_triplets(mcqs, AcceptedIds(triplets, source_id), source_id, answers)
            IN /\ mcqs' = g.mcqs
               /\ last' = Returned("generate_mcqs", source_id, "Generated",
                                   [ids |-> AcceptedIds(triplets, source_id), count |-> g.generated,
                                    valid |-> WouldAnswerValid(answers), before |-> Len(mcqs)])
    /\ UNCHANGED <<sources, pending, triplets, cache, pending_page>>

\* Two handle_generate_mcqs_for_article handlers in flight on the event loop.
\* A handler runs from one await to the next without interruption; each run
\* is [pc, ids, todo, generated, overlapped]: where it is suspended, the
\* accepted triplets it read, those still to do, its count, and whether the
\* other run was in flight when it began.
InFlight == "in flight"

IdleRun == [pc |-> "idle", ids |-> <<>>, todo |-> <<>>, generated |-> 0, overlapped |-> FALSE]

Runs(l) == IF l.op = "generate_mcqs" /\ l.res = InFlight THEN l.arg.runs ELSE <<IdleRun, IdleRun>>

RunsRecord(source_id, runs) == Returned("generate_mcqs", source_id, InFlight, [runs |-> runs])

\* handle_generate_mcqs_for_article up to `await get_or_create_session()`:
\* the source and its accepted triplets are read.
GenBegin(run, source_id) ==
    /\ Runs(last)[run].pc = "idle"
    /\ (last.op = "generate_mcqs" /\ last.res = InFlight) => last.src = source_id
    /\ SourceExists(sources, source_id)
    /\ AcceptedIds(triplets, source_id) # <<>>
    /\ last' = RunsRecord(source_id,
                          [Runs(last) EXCEPT ![run] =
                              [pc |-> "loop", ids |-> AcceptedIds(triplets, source_id),
                               todo |-> AcceptedIds(triplets, source_id), generated |-> 0,
                               overlapped |-> Runs(last)[3 - run].pc \in {"loop", "await"}]])
    /\ UNCHANGED <<sources, pending, triplets, mcqs, cache, pending_page>>

\* One uninterrupted stretch of the loop of _auto_generate_mcqs_for_triplets.
\* At the head of the loop: the existence check, then the run_agent call,
\* which raises at once when its keywords do not bind (the except clause
\* continues with the next triplet) and otherwise suspends the handler.
\* Resumed from the call: the payload checks and the insert, with no second
\* existence check.
GenStep(run, answer) ==
    LET r == Runs(last)[run]
        tid == Head(r.todo)
        skip == [r EXCEPT !.pc = "loop", !.todo = Tail(r.todo)]
        payload == _coerce_result_to_dict(answer)
        mcq_draft == IF Truthy(DictGet(payload, "mcq_draft", EmptyMcq))
                     THEN DictGet(payload, "mcq_draft", EmptyMcq)
                     ELSE DictGet(payload, "current_mcqs", EmptyMcq)
        visual_payload == DictGet(payload, "visual_payload", EmptyVisual)
    IN /\ r.pc \in {"loop", "await"}
       /\ r.todo # <<>>
       /\ IF r.pc = "loop"
          THEN /\ mcqs' = mcqs
               /\ last' = RunsRecord(last.src,
                     [Runs(last) EXCEPT ![run] =
                        IF HasMcqFor(mcqs, tid) \/ run_agent(RunAgentCallKwargs, answer).kind = "raises"
                        THEN skip ELSE [r EXCEPT !.pc = "await"]])
          ELSE IF ~Truthy(mcq_draft) \/ Len(DictGet(mcq_draft, "options", <<>>)) # 5
          THEN /\ mcqs' = mcqs
               /\ last' = RunsRecord(last.src, [Runs(last) EXCEPT ![run] = skip])
          ELSE /\ mcqs' = Append(mcqs, GeneratedMcq(Len(mcqs) + 1, mcq_draft, visual_payload, last.src, tid))
               /\ last' = RunsRecord(last.src, [Runs(last) EXCEPT ![run] = [skip EXCEPT !.generated = @ + 1]])
       /\ UNCHANGED <<sources, pending, triplets, cache, pending_page>>

\* The loop is over: the handler reports its count and closes its session.
GenFinish(run) ==
    /\ Runs(last)[run].pc = "loop"
    /\ Runs(last)[run].todo = <<>>
    /\ last' = RunsRecord(last.src, [Runs(last) EXCEPT ![run].pc = "done"])
    /\ UNCHANGED <<sources, pending, triplets, mcqs, cache, pending_page>>

\* The call repeats the previous one: the same source and the same extraction
\* output as the _auto_process_source run just before it.
IsRetry(source_id, extraction) ==
    /\ last.op = "auto_process"
    /\ last.src = source_id
    /\ last.arg.extraction = extraction.kind
    /\ last.arg.extracted = extraction.payload.extracted_triplets

\* Mutant of AutoProcessSource: the first extracted triplet is inserted as a new
\* row, without the duplicate lookups.
AutoProcessReinserts(source_id, extraction, answer) ==
    /\ SourceExists(sources, source_id)
    /\ Len(triplets) < 4
    /\ triplets' = LET extracted == extraction.payload.extracted_triplets
                   IN IF extracted = <<>> THEN triplets
                      ELSE Append(triplets, NewTriplet(Len(triplets) + 1, Strip(Head(extracted).subject), "a1", Strip(Head(extracted).object), Head(extracted).relation, source_id, <<>>, FALSE))
    /\ last' = Returned("auto_process", source_id, "No MCQs generated yet.",
                        [extraction |-> extraction.kind, extracted |-> extraction.payload.extracted_triplets,
                         valid |-> FALSE, retry |-> IsRetry(source_id, extraction)])
    /\ UNCHANGED <<sources, pending, mcqs, cache, pending_page>>

\* Mutant of AutoProcessSource: the extraction call is made outside the try
\* block, so its exception leaves the function.
AutoProcessPropagates(source_id, extraction, answer) ==
    /\ SourceExists(sources, source_id)
    /\ LET result == run_agent(RunAgentCallKwargs, extraction)
           arg == [extraction |-> extraction.kind,
                   extracted |-> extraction.payload.extracted_triplets,
                   valid |-> FALSE]
       IN last' = Returned("auto_process", source_id,
                           IF result.kind = "raises" THEN "Exception" ELSE "No MCQs generated yet.", arg)
    /\ UNCHANGED <<sources, pending, triplets, mcqs, cache, pending_page>>

\* Mutant of AutoProcessSource: the run takes the source off the review queue
\* and drops its draft, as the acceptance path does.
AutoProcessDequeues(source_id, extraction, answer) ==
    /\ SourceExists(sources, source_id)
    /\ LET result == run_agent(RunAgentCallKwargs, extraction)
           arg == [extraction |-> extraction.kind,
                   extracted |-> extraction.payload.extracted_triplets,
                   valid |-> FALSE]
       IN last' = Returned("auto_process", source_id,
                           IF result.kind = "raises" THEN "Pipeline error" ELSE "No MCQs generated yet.", arg)
    /\ cache' = DictPop(cache, source_id)
    /\ pending' = _remove_pending_source(pending, source_id)
    /\ UNCHANGED <<sources, triplets, mcqs, pending_page>>

\* _auto_process_source on a registered source: extraction, classification,
\* generation for the triplets the classification reports accepted.  The
\* pipeline gives the same kind of answer to every generation prompt of one
\* run.
AutoProcessSource(source_id, extraction, answer) ==
    /\ SourceExists(sources, source_id)
    /\ LET result == run_agent(RunAgentCallKwargs, extraction)
           payload == _coerce_result_to_dict(result)
           extracted == DictGet(payload, "extracted_triplets", <<>>)
           st == _store_triplets_with_auto_accept(triplets, source_id, extracted)
           answers == [t \in 1..Len(st.triplets) |-> answer]
           g == _auto_generate_mcqs_for_triplets(mcqs, st.accepted, source_id, answers)
           arg == [extraction |-> extraction.kind,
                   extracted |-> extraction.payload.extracted_triplets,
                   valid |-> WouldAnswerValid(<<answer>>) # {},
                   retry |-> IsRetry(source_id, extraction)]
       IN IF result.kind = "raises"
          THEN /\ last' = Returned("auto_process", source_id, "Pipeline error", arg)
               /\ UNCHANGED <<triplets, mcqs>>
          ELSE IF st.raised
          THEN /\ triplets' = st.triplets
               /\ last' = Returned("auto_process", source_id, "TypeError", arg)
               /\ UNCHANGED mcqs
          ELSE IF st.accepted = <<>>
          THEN /\ triplets' = st.triplets
               /\ last' = Returned("auto_process", source_id, "No MCQs generated yet.", arg)
               /\ UNCHANGED mcqs
          ELSE /\ triplets' = st.triplets
               /\ mcqs' = g.mcqs
               /\ last' = Returned("auto_process", source_id,
                                   IF g.generated = 0 THEN "MCQ generation deferred" ELSE "Auto-generated", arg)
    /\ UNCHANGED <<sources, pending, cache, pending_page>>

\* The fields handle_regenerate_mcq overwrites on a stored record: the options
\* only when the new list has 5 items, the other fields when the payload has
\* them.
RegeneratedMcq(mcq, mcq_draft, visual_payload) ==
    [mcq EXCEPT
        !.options = IF Len(DictGet(mcq_draft, "options", <<>>)) = 5 THEN JsonDumps(DictGet(mcq_draft, "options", <<>>)) ELSE @,
        !.stem = DictGet(mcq_draft, "stem", @),
        !.question = DictGet(mcq_draft, "question", @),
        !.correct_option = DictGet(mcq_draft, "correct_option", @),
        !.visual_prompt = DictGet(visual_payload, "optimized_visual_prompt", @),
        !.visual_triplet = DictGet(visual_payload, "visual_triplet", @)]

\* Mutant of RegenerateMcq: the generation call is made before the record,
\* its triplet and its source are looked up.
RegenerateCallsFirst(mcq_id, answer) ==
    /\ IF mcq_id = 0
       THEN last' = Returned("regenerate_mcq", 0, "*Select an MCQ first*", [id |-> mcq_id])
       ELSE IF run_agent(RunAgentCallKwargs, answer).kind = "raises"
       THEN last' = Returned("regenerate_mcq", 0, "TypeError", [id |-> mcq_id])
       ELSE last' = Returned("regenerate_mcq", 0, "MCQ not found.", [id |-> mcq_id])
    /\ UNCHANGED <<sources, pending, triplets, mcqs, cache, pending_page>>

\* handle_regenerate_mcq(mcq_choice, model_id); mcq_id 0 is an empty choice.
\* The run_agent call is not inside a try block: its exception leaves the
\* handler.
RegenerateMcq(mcq_id, answer) ==
    /\ IF mcq_id = 0
       THEN /\ mcqs' = mcqs
            /\ last' = Returned("regenerate_mcq", 0, "*Select an MCQ first*", [id |-> mcq_id])
       ELSE IF mcq_id \notin 1..Len(mcqs)
       THEN /\ mcqs' = mcqs
            /\ last' = Returned("regenerate_mcq", 0, "MCQ not found.", [id |-> mcq_id])
       ELSE IF mcqs[mcq_id].triplet_id \notin 1..Len(triplets) \/ ~SourceExists(sources, mcqs[mcq_id].source_id)
       THEN /\ mcqs' = mcqs
            /\ last' = Returned("regenerate_mcq", 0, "Associated triplet/source not found.", [id |-> mcq_id])
       ELSE LET result == run_agent(RunAgentCallKwargs, answer)
                payload == _coerce_result_to_dict(result)
                mcq_draft == DictGet(payload, "mcq_draft", EmptyMcq)
                visual_payload == DictGet(payload, "visual_payload", EmptyVisual)
            IN IF result.kind = "raises"
               THEN /\ mcqs' = mcqs
                    /\ last' = Returned("regenerate_mcq", mcqs[mcq_id].source_id, "TypeError", [id |-> mcq_id])
               ELSE IF ~Truthy(mcq_draft)
               THEN /\ mcqs' = mcqs
                    /\ last' = Returned("regenerate_mcq", mcqs[mcq_id].source_id, "MCQ regeneration failed. Please retry.", [id |-> mcq_id])
               ELSE /\ mcqs' = [mcqs EXCEPT ![mcq_id] = RegeneratedMcq(@, mcq_draft, visual_payload)]
                    /\ last' = Returned("regenerate_mcq", mcqs[mcq_id].source_id, "regenerated", [id |-> mcq_id])
    /\ UNCHANGED <<sources, pending, triplets, cache, pending_page>>

----------------------------------------------------------------------------
\* Provenance verification (verify_context_sentences).  Text is a sequence of
\* characters: a lower-case letter, its upper-case form and a blank.

Chars == {"a", "A", " "}

MaxStr == 4

Strings == UNION {[1..n -> Chars] : n \in 0..MaxStr}

\* str.lower()
Lower(s) == [i \in 1..Len(s) |-> IF s[i] = "A" THEN "a" ELSE s[i]]

\* str.strip(): white space removed at both ends.
RECURSIVE StrStrip(_)
StrStrip(s) ==
    IF s = <<>> THEN s
    ELSE IF Head(s) = " " THEN StrStrip(Tail(s))
    ELSE IF s[Len(s)] = " " THEN StrStrip(SubSeq(s, 1, Len(s) - 1))
    ELSE s

\* `sub in s` on strings.
Contains(sub, s) == \E i \in 0..(Len(s) - Len(sub)) : SubSeq(s, i + 1, i + Len(sub)) = sub

\* Every run of blanks replaced by one blank.
RECURSIVE CollapseRuns(_)
CollapseRuns(s) ==
    IF Len(s) <= 1 THEN s
    ELSE IF s[1] = " " /\ s[2] = " " THEN CollapseRuns(Tail(s))
    ELSE <<Head(s)>> \o CollapseRuns(Tail(s))

\* Mutant of SplitJoin: the text is left as it is.
SplitJoinKeeps(s) == s

\* " ".join(s.split()): the words of s joined by single blanks, which also
\* drops the white space at both ends.
SplitJoin(s) == CollapseRuns(StrStrip(s))

verify_context_sentences(context_sentences, source_text) ==
    LET source_text_lower == Lower(source_text)
        Found(sentence) ==
            LET sentence_lower == StrStrip(Lower(sentence))
            IN \/ Contains(sentence_lower, source_text_lower)
               \/ Contains(SplitJoin(sentence_lower), SplitJoin(source_text_lower))
        results == [i \in 1..Len(context_sentences) |-> [sentence |-> context_sentences[i], verified |-> Found(context_sentences[i])]]
    IN [all_verified |-> \A i \in 1..Len(results) : results[i].verified,
        results |-> results,
        verified_count |-> Cardinality({i \in 1..Len(results) : results[i].verified}),
        total_count |-> Len(results)]

\* A call of query_triplets_for_distractors(db, subject, action, object).
QueryDistractors(subject, action, object) ==
    /\ last' = Returned("query_distractors", 0, "returned",
                        [subject |-> subject, action |-> action, object |-> object,
                         result |-> query_triplets_for_distractors(triplets, subject, action, object)])
    /\ UNCHANGED <<sources, pending, triplets, mcqs, cache, pending_page>>

\* A call of the provenance verifier tool.
VerifyContext(context_sentences, source_text) ==
    /\ last' = Returned("verify", 0, "verified",
                        [context_sentences |-> context_sentences, source_text |-> source_text,
                         result |-> verify_context_sentences(context_sentences, source_text)])
    /\ UNCHANGED <<sources, pending, triplets, mcqs, cache, pending_page>>

----------------------------------------------------------------------------
\* Specifications.

Init ==
    /\ sources = <<>>
    /\ pending = <<>>
    /\ triplets = <<>>
    /\ mcqs = <<>>
    /\ cache = <<>>
    /\ pending_page = render_pending_sources(<<>>, <<>>, 1, PageSize).page
    /\ last = Returned("init", 0, "", NoArg)

\* The review workflow: intake, queue, drafts, acceptance, with one fact of
\* the first source written to the triplet store directly.
Next ==
    \/ \E a \in Articles : SelectArticle(a)
    \/ PendingClear
    \/ \E s \in SourceIds, r \in GeminiResults : GenerateDraft(s, r)
    \/ \E s \in SourceIds, r \in GeminiResults : ApplyFeedback(s, r)
    \/ \E s \in SourceIds, v \in {"", "vp"} : AcceptMcq(s, v)
    \/ Upsert("s1", "o1", "R1", 1, <<"c0">>, FALSE)

Spec == Init /\ [][Next]_vars

\* Every way of answering the generation prompts of the stored triplets.
Answers == [1..Len(triplets) -> GenResults]

\* The automated workflow: classification and MCQ generation over registered
\* sources, with the triplet store also written and reviewed directly.
NextAuto ==
    \/ \E a \in Articles : SelectArticle(a)
    \/ \E s \in SourceIds : Upsert("s1", "o1", "R1", s, <<"c1">>, FALSE)
    \/ \E t \in 1..MaxSources, st \in Statuses : SetStatus(t, st)
    \/ \E s \in SourceIds, x \in ExtractedLists : StoreTriplets(s, x)
    \/ \E s \in SourceIds, ans \in Answers : GenerateMcqsForArticle(s, ans)
    \/ \E s \in SourceIds, e \in ExtractResults, g \in GenResults : AutoProcessSource(s, e, g)
    \/ \E m \in 0..1, g \in {GenValid, GenShort} : RegenerateMcq(m, g)

SpecAuto == Init /\ [][NextAuto]_vars

\* upsert_triplet alone, over every combination of its arguments for one
\* fact per source.
NextKB ==
    \E rel \in {"R1", "R2"}, s \in SourceIds, ctx \in {<<>>, <<"c1">>, <<"c2">>}, v \in BOOLEAN : Upsert("s1", "o1", rel, s, ctx, v)

SpecKB == Init /\ [][NextKB]_vars

\* The triplet store under review: two facts of one source upserted with
\* every combination of relation, sentences and validity, and every status
\* change of every row id, one past the last id included.
NextReview ==
    \/ \E o \in {"o1", "o2"}, rel \in {"R1", "R2"}, ctx \in {<<>>, <<"c1">>}, v \in BOOLEAN : Upsert("s1", o, rel, 1, ctx, v)
    \/ \E t \in 1..3, st \in Statuses : SetStatus(t, st)

SpecReview == Init /\ [][NextReview]_vars

\* One successful generation answer, for the drafts of the queue workflow.
GeminiDraft == [success |-> TRUE, payload |-> PayA]

\* Intake: both kinds of registration, over every file name and content.
NextIntake ==
    \/ \E a \in Articles : SelectArticle(a)
    \/ \E f \in PdfFiles, b \in PdfBytes : PdfUpload(f, b)

SpecIntake == Init /\ [][NextIntake]_vars

\* The pending queue: enqueueing by both kinds of intake, the listing's page
\* state, clearing and dequeueing, and acceptance of staged drafts.
NextQueue ==
    \/ \E a \in Articles : SelectArticle(a)
    \/ PdfUpload([name |-> "a.pdf", md5 |-> 1], [readable |-> TRUE, pages |-> "x"])
    \/ PendingClear
    \/ \E d \in {-1, 1} : pending_page + d <= MaxPage /\ PendingNavigation(d)
    \/ \E s \in SourceIds : RemovePending(s)
    \/ GenerateDraft(1, GeminiDraft)
    \/ AcceptMcq(1, "")

SpecQueue == Init /\ [][NextQueue]_vars

\* The first article of the search results.
Article1 == [pubmed_id |-> 1, title |-> "t1", abstract |-> "x"]

\* The automated workflow next to the review queue, for one source: intake,
\* a staged draft, a stored fact and its review, automated generation and
\* processing, clearing the queue and accepting the draft.
NextAutoQueue ==
    \/ SelectArticle(Article1)
    \/ GenerateDraft(1, GeminiDraft)
    \/ Upsert("s1", "o1", "R1", 1, <<"c1">>, FALSE)
    \/ \E st \in Statuses : SetStatus(1, st)
    \/ \E ans \in Answers : GenerateMcqsForArticle(1, ans)
    \/ \E e \in ExtractResults, g \in {GenValid, AgentRaises} : AutoProcessSource(1, e, g)
    \/ PendingClear
    \/ AcceptMcq(1, "")
    \/ \E m \in 0..1, g \in {GenValid, GenShort} : RegenerateMcq(m, g)

SpecAutoQueue == Init /\ [][NextAutoQueue]_vars

\* Draft generation with the generation call as a step of its own, while
\* sources are queued and the queue is cleared.
NextSession ==
    \/ \E a \in Articles : SelectArticle(a)
    \/ \E s \in SourceIds : GenerateDraftCall(s)
    \/ \E r \in GeminiResults : GenerateDraftReturn(r)
    \/ PendingClear

SpecSession == Init /\ [][NextSession]_vars

\* The stores next to the queue: registration, a stored fact and its review,
\* bulk classification, a staged draft and its acceptance, clearing the queue
\* and dequeueing.
NextStore ==
    \/ \E a \in Articles : SelectArticle(a)
    \/ Upsert("s1", "o1", "R1", 1, <<"c1">>, FALSE)
    \/ \E st \in Statuses : SetStatus(1, st)
    \/ GenerateDraft(1, GeminiDraft)
    \/ AcceptMcq(1, "")
    \/ PendingClear
    \/ \E s \in SourceIds : RemovePending(s)
    \/ \E x \in ExtractedLists : StoreTriplets(1, x)

SpecStore == Init /\ [][NextStore]_vars

\* PDF intake over every file name and content, files without text included.
NextPdf ==
    \/ \E f \in PdfFiles, b \in PdfBytes \cup {EmptyPdf} : PdfUpload(f, b)
    \/ PendingClear

SpecPdf == Init /\ [][NextPdf]_vars

\* Sentence lists handed to the verifier: none, any one sentence, and pairs
\* of a few sentences.
SentenceLists ==
    {<<>>} \cup {<<x>> : x \in Strings}
           \cup {<<x, y>> : x, y \in {<<"a">>, <<" ", "a">>, <<"A", " ", "a">>}}

\* Provenance verification as a function of its inputs: the call's arguments
\* are drawn at the start, the step applies the verifier to them.
InitVerify ==
    /\ sources = <<>>
    /\ pending = <<>>
    /\ triplets = <<>>
    /\ mcqs = <<>>
    /\ cache = <<>>
    /\ pending_page = 1
    /\ \E cs \in SentenceLists, t \in Strings :
          last = Returned("init", 0, "", [context_sentences |-> cs, source_text |-> t])

NextVerify == last.op = "init" /\ VerifyContext(last.arg.context_sentences, last.arg.source_text)

SpecVerify == InitVerify /\ [][NextVerify]_vars

MaxRows == 16

\* Row i of a reviewed triplet store of one source: two subjects, two
\* actions, two objects, every fifth row rejected.
StoreRow(i) ==
    [NewTriplet(i, IF i % 6 = 0 THEN "s2" ELSE "s1", IF i % 2 = 1 THEN "a1" ELSE "a2",
                IF i % 3 = 0 THEN "o2" ELSE "o1", "R1", 1, <<>>, FALSE)
        EXCEPT !.status = IF i % 5 = 0 THEN "rejected" ELSE "accepted"]

\* The distractor query as a function of its inputs: a store of n rows.
InitQuery ==
    /\ sources = register_pubmed_source(<<>>, Article1).sources
    /\ pending = <<>>
    /\ \E n \in 0..MaxRows : triplets = [i \in 1..n |-> StoreRow(i)]
    /\ mcqs = <<>>
    /\ cache = <<>>
    /\ pending_page = 1
    /\ last = Returned("init", 0, "", NoArg)

NextQuery ==
    \E subject \in {NoneStr, "", "s1", "s2"}, action \in {NoneStr, "a1"}, object \in {NoneStr, "o1"} :
        QueryDistractors(subject, action, object)

SpecQuery == InitQuery /\ [][NextQuery]_vars

\* Two automated generation runs for the first source, interleaved at their
\* awaits, over a store of up to two reviewed facts.
NextRace ==
    \/ SelectArticle(Article1)
    \/ \E o \in {"o1", "o2"} : Upsert("s1", o, "R1", 1, <<"c1">>, FALSE)
    \/ \E t \in 1..2, st \in {"accepted", "rejected"} : SetStatus(t, st)
    \/ \E run \in 1..2 : GenBegin(run, 1)
    \/ \E run \in 1..2, g \in {GenValid, GenShort} : GenStep(run, g)
    \/ \E run \in 1..2 : GenFinish(run)

SpecRace == Init /\ [][NextRace]_vars

\* Acceptance of a source's draft with refinements of that draft arriving
\* while the acceptance is under way.
NextAcceptRace ==
    \/ \E a \in Articles : SelectArticle(a)
    \/ \E src \in SourceIds, r \in GeminiResults : GenerateDraft(src, r)
    \/ \E src \in SourceIds : AcceptRead(src)
    \/ \E r \in GeminiResults : FeedbackWhileAccepting(r)
    \/ \E v \in {"", "vp"} : AcceptWrite(v)
    \/ PendingClear

SpecAcceptRace == Init /\ [][NextAcceptRace]_vars

\* Results whose payload may also lack the visual prompt.
DraftResults == GeminiResults \cup {[success |-> TRUE, payload |-> PayNoVisual]}

\* Draft staging and refinement over every registered source.
NextDraft ==
    \/ \E a \in Articles : SelectArticle(a)
    \/ \E s \in SourceIds, r \in DraftResults : GenerateDraft(s, r)
    \/ \E s \in SourceIds, r \in DraftResults : ApplyFeedback(s, r)
    \/ PendingClear

SpecDraft == Init /\ [][NextDraft]_vars

\* A Source row as register_pubmed_source leaves it for article i.
PubmedRow(i) == [id |-> i, source_id |-> PMID(i), source_type |-> "pubmed", title |-> "t1", content |-> "x"]

\* The pending listing as a function of its inputs: n registered sources,
\* all pending, queued in id order.
InitList ==
    /\ \E n \in 0..MaxPending :
          /\ sources = [i \in 1..n |-> PubmedRow(i)]
          /\ pending = [i \in 1..n |-> i]
    /\ triplets = <<>>
    /\ mcqs = <<>>
    /\ cache = <<>>
    /\ pending_page = 1
    /\ last = Returned("init", 0, "", NoArg)

NextList == \E page \in -1..(MaxPage + 1), page_size \in 1..PageSize : ListPending(page, page_size)

SpecList == InitList /\ [][NextList]_vars

----------------------------------------------------------------------------
\* Properties.

\* The call `last` records is an AcceptDraft of a live draft with exactly 5
\* options for a registered source: the case in which AcceptDraft is specified
\* to succeed.
AcceptOfValidDraft ==
    /\ last.op = "accept_mcq"
    /\ last.arg.draft # <<>>
    /\ SourceExists(sources, last.src)
    /\ Len(DictGet(last.arg.draft[1].mcq, "options", <<>>)) = 5

\* The rows of a table holding the fact of a triplet dict for a source.
RowsOf(trips, td, source_id) ==
    {i \in 1..Len(trips) :
        /\ trips[i].subject = Strip(td.subject) /\ trips[i].action = Strip(td.action)
        /\ trips[i].object = Strip(td.object) /\ trips[i].source_id = source_id}

\* C1: after AcceptDraft of a live 5-option draft, every triplet of the draft
\* is in the TripletStore for that source with status accepted and
\* schemaValid true.
C1_AcceptStoresAccepted ==
    AcceptOfValidDraft =>
        \A k \in 1..Len(last.arg.draft[1].triplets) :
            \E i \in RowsOf(triplets, last.arg.draft[1].triplets[k], last.src) :
                triplets[i].status = "accepted" /\ triplets[i].schema_valid

\* C2: bulk ingestion of one well-formed extracted triplet that is not a
\* duplicate for its source stores it, with status accepted iff it is schema
\* valid or an accepted row with the same (subject, action, object, relation)
\* was in the store, and pending otherwise.
C2_AutoClassifyStatus ==
    (/\ last.op = "store_triplets"
     /\ Len(last.arg.extracted) = 1
     /\ "" \notin {Strip(last.arg.extracted[1].subject), Strip(last.arg.extracted[1].object)}
     /\ ~IsDuplicate(last.arg.before, last.arg.extracted[1].subject, last.arg.extracted[1].action, last.arg.extracted[1].object, last.arg.extracted[1].relation, last.src))
    => LET td == last.arg.extracted[1]
           expected == IF td.schema_valid \/ HasAcceptedMatch(last.arg.before, td.subject, td.action, td.object, td.relation)
                       THEN "accepted" ELSE "pending"
       IN \E i \in RowsOf(triplets, td, last.src) :
              triplets[i].relation = td.relation /\ triplets[i].status = expected

\* The 4-tuple that identifies a Triplet row.
KeyOf(row) == <<row.subject, row.action, row.object, row.source_id>>

\* C3: every Upsert call leaves exactly one row for its (subject, action,
\* object, sourceId) and no two rows of the table share a 4-tuple; the row's
\* context sentences are the call's when its list is non-empty and otherwise
\* what they were before the call, and no other row's sentences change, so
\* that after any sequence of calls a row carries the sentences of the most
\* recent call for its 4-tuple whose list was non-empty.
C3_UpsertUnique ==
    [][/\ \A i, j \in 1..Len(triplets') : KeyOf(triplets'[i]) = KeyOf(triplets'[j]) => i = j
       /\ last'.op = "upsert" =>
            LET key == <<last'.arg.subject, "a1", last'.arg.object, last'.src>>
                now == {i \in 1..Len(triplets') : KeyOf(triplets'[i]) = key}
                was == {i \in 1..Len(triplets) : KeyOf(triplets[i]) = key}
            IN /\ Cardinality(now) = 1
               /\ \A i \in now :
                    triplets'[i].context_sentences =
                        IF last'.arg.context_sentences # <<>> THEN [json |-> last'.arg.context_sentences]
                        ELSE IF i \in was THEN triplets[i].context_sentences
                        ELSE [json |-> <<>>]
               /\ \A i \in 1..Len(triplets) : i \notin now => triplets'[i] = triplets[i]
      ]_vars

\* C3 witness: a 4-tuple upserted several times, last with an empty list,
\* whose row still carries the sentences of an earlier non-empty call.
C3_Witness ==
    /\ last.op = "upsert"
    /\ last.arg.context_sentences = <<>>
    /\ Len(triplets) = 2
    /\ triplets[last.arg.id].context_sentences = [json |-> <<"c2">>]

\* C4: an AcceptDraft call for a source with no cached draft, or whose cached
\* draft does not have exactly 5 options, reports a failure and writes
\* nothing: tables, draft cache and pending markers are as before.
C4_RejectedAcceptWritesNothing ==
    [][(/\ last'.op = "accept_mcq"
        /\ \/ last'.src \notin DOMAIN cache
           \/ Len(DictGet(cache[last'.src].mcq, "options", <<>>)) # 5)
       => /\ last'.res \in {NoDraftMessage, BadOptionsMessage, "Article not found."}
          /\ UNCHANGED <<sources, pending, triplets, mcqs, cache>>
      ]_vars

\* C4 witness: a rejected acceptance of a cached draft without 5 options, for
\* a source that is pending, with a row in the triplet store.
C4_Witness ==
    /\ last.op = "accept_mcq"
    /\ last.res = BadOptionsMessage
    /\ last.src \in DOMAIN cache
    /\ last.src \in Range(pending)
    /\ triplets # <<>>

\* C5: an AcceptDraft call, also one that fails partway, either persists
\* every triplet of the draft together with one new MCQRecord or leaves both
\* tables as they were.
C5_AcceptAllOrNothing ==
    [][(last'.op = "accept_mcq" /\ last'.arg.draft # <<>>)
       => \/ triplets' = triplets /\ mcqs' = mcqs
          \/ /\ Len(mcqs') = Len(mcqs) + 1
             /\ \A k \in 1..Len(last'.arg.draft[1].triplets) :
                    RowsOf(triplets', last'.arg.draft[1].triplets[k], last'.src) # {}
      ]_vars

\* C5 witness: an acceptance of a 5-option draft that failed inside the loop
\* over the draft's triplets, with a row already in the store and no record.
C5_Witness ==
    /\ AcceptOfValidDraft
    /\ last.res = "TypeError"
    /\ triplets # <<>>
    /\ mcqs = <<>>

\* C6: AcceptDraft of a live 5-option draft creates exactly one new MCQRecord
\* for the source, with status pending, the draft's 5 options in order and a
\* non-null primary triplet link to the stored row of the draft's first
\* triplet.
C6_AcceptCreatesOneRecord ==
    [][AcceptOfValidDraft'
       => /\ Len(mcqs') = Len(mcqs) + 1
          /\ mcqs'[Len(mcqs')].source_id = last'.src
          /\ mcqs'[Len(mcqs')].status = "pending"
          /\ mcqs'[Len(mcqs')].options = [json |-> last'.arg.draft[1].mcq.options]
          /\ mcqs'[Len(mcqs')].triplet_id # NullId
          /\ mcqs'[Len(mcqs')].triplet_id \in RowsOf(triplets', last'.arg.draft[1].triplets[1], last'.src)
      ]_vars

\* C7: after AcceptDraft of a live 5-option draft the source has no cached
\* draft and no pending marker, and the drafts and markers of the other
\* sources are as before.
C7_AcceptDiscardsAndDequeues ==
    [][AcceptOfValidDraft'
       => /\ last'.src \notin DOMAIN cache'
          /\ last'.src \notin Range(pending')
          /\ \A s \in SourceIds \ {last'.src} :
                /\ (s \in DOMAIN cache') = (s \in DOMAIN cache)
                /\ s \in DOMAIN cache => cache'[s] = cache[s]
                /\ (s \in Range(pending')) = (s \in Range(pending))
      ]_vars

\* C8: every source id with a cached draft has a pending marker.
C8_DraftImpliesPending == \A s \in DOMAIN cache : s \in Range(pending)

\* C9: after automated generation ran over the accepted triplets of a source,
\* every one of them whose prompt the generation call answers with a valid
\* 5-option MCQ is referenced by exactly one MCQRecord of that source.
C9_GenerateOncePerPair ==
    (last.op = "generate_mcqs" /\ last.res = "Generated")
    => \A t \in Range(last.arg.ids) \cap last.arg.valid :
           Cardinality({i \in 1..Len(mcqs) : mcqs[i].triplet_id = t /\ mcqs[i].source_id = last.src}) = 1

\* C10: when ProcessSource returns and its extraction and generation calls
\* are answered with an extraction result and valid 5-option MCQs, every
\* extracted triplet stored for the source with status accepted is referenced
\* by exactly one MCQRecord.
C10_ProcessCoversAccepted ==
    (/\ last.op = "auto_process"
     /\ last.res # "TypeError"
     /\ last.arg.extraction = "event"
     /\ last.arg.valid)
    => \A k \in 1..Len(last.arg.extracted) :
           \A i \in RowsOf(triplets, last.arg.extracted[k], last.src) :
               triplets[i].status = "accepted" =>
                   Cardinality({m \in 1..Len(mcqs) : mcqs[m].triplet_id = i}) = 1

\* C11: no two Source rows share an external source_id, and registering a PDF
\* or a bibliographic record whose source_id already has a row adds no row,
\* changes no row (title and content stay) and returns the internal id of the
\* existing row.
C11_IntakeIdempotent ==
    [][/\ \A i, j \in 1..Len(sources') : sources'[i].source_id = sources'[j].source_id => i = j
       /\ (last'.op \in {"pdf_upload", "select_article"} /\ last'.arg.existing # 0)
            => /\ sources' = sources
               /\ last'.src = last'.arg.existing
      ]_vars

\* C12: no source id has two pending markers, and queueing a source that is
\* already pending (by either kind of intake) leaves the queue exactly as it
\* was: no second marker, the existing marker in its place.
C12_OneMarkerPerSource ==
    [][/\ \A i, j \in 1..Len(pending') : pending'[i] = pending'[j] => i = j
       /\ (/\ last'.op \in {"pdf_upload", "select_article"}
           /\ last'.res = "queued"
           /\ last'.src \in Range(pending))
            => pending' = pending
      ]_vars

\* C12 witness: an intake of a registered source that was already pending,
\* ahead of a marker queued after it.
C12_Witness ==
    /\ last.op \in {"pdf_upload", "select_article"}
    /\ last.arg.existing # 0
    /\ Len(pending) >= 2
    /\ pending[1] = last.src

\* C13: ListPending(page, pageSize) over n markers reports totalPages =
\* max(1, ceil(n / pageSize)), i.e. the least k >= 1 with k * pageSize >= n,
\* and returns the entries of page p = min(max(page, 1), totalPages) of the
\* newest-first ordering: at most pageSize entries, the k-th being the marker
\* ((p - 1) * pageSize + k) places from the newest.  With n = 0: no entries
\* and totalPages = 1; with n = 13, pageSize = 6: totalPages = 3 and every
\* page > 3 returns the entries of page 3.
C13_ListPendingPages ==
    last.op = "list_pending" =>
        LET n == Len(pending)
            size == last.arg.page_size
            tp == last.arg.total_pages
            p == IF last.arg.page < 1 THEN 1 ELSE IF last.arg.page > tp THEN tp ELSE last.arg.page
            first == (p - 1) * size
            entries == last.arg.entries
        IN /\ tp >= 1 /\ tp * size >= n /\ (tp > 1 => (tp - 1) * size < n)
           /\ Len(entries) <= size
           /\ Len(entries) = (IF n - first < size THEN n - first ELSE size)
           /\ \A k \in 1..Len(entries) : entries[k] = pending[n + 1 - (first + k)]
           /\ n = 0 => entries = <<>> /\ tp = 1
           /\ (n = 13 /\ size = 6) => tp = 3 /\ (last.arg.page > 3 => entries = <<pending[1]>>)

\* C13 witness: 13 markers listed 6 to a page, page 5 requested, the single
\* entry of page 3 returned.
C13_Witness ==
    /\ last.op = "list_pending"
    /\ Len(pending) = 13
    /\ last.arg.page_size = 6
    /\ last.arg.page = 5
    /\ last.arg.entries = <<pending[1]>>

\* C14: the page number the pending listing reports after a Prev / Next
\* press, which is also the page state the next press starts from, lies in
\* 1..totalPages.
C14_ReportedPageInRange ==
    last.op = "pending_navigation" =>
        /\ last.arg.page = pending_page
        /\ last.arg.page >= 1
        /\ last.arg.page <= _list_pending_sources(sources, pending, last.arg.page, PageSize).total_pages

\* C15: an Upsert that finds a row for its (subject, action, object,
\* sourceId) adds no row and changes of that row only the context sentences
\* (to the supplied list when it is non-empty) and the validity flag: status,
\* relation and id stay; an Upsert that finds none adds exactly one row, with
\* status pending.  No other row changes.
C15_UpsertFrame ==
    [][last'.op = "upsert" =>
        LET key == <<last'.arg.subject, "a1", last'.arg.object, last'.src>>
            was == {i \in 1..Len(triplets) : KeyOf(triplets[i]) = key}
        IN IF was # {}
           THEN /\ Len(triplets') = Len(triplets)
                /\ \A i \in 1..Len(triplets) :
                      triplets'[i] =
                        IF i \in was
                        THEN [triplets[i] EXCEPT
                                !.context_sentences = IF last'.arg.context_sentences # <<>> THEN [json |-> last'.arg.context_sentences] ELSE @,
                                !.schema_valid = last'.arg.schema_valid]
                        ELSE triplets[i]
           ELSE /\ Len(triplets') = Len(triplets) + 1
                /\ SubSeq(triplets', 1, Len(triplets)) = triplets
                /\ KeyOf(triplets'[Len(triplets')]) = key
                /\ triplets'[Len(triplets')].status = "pending"
      ]_vars

\* C15 witness: an Upsert with another relation label and the validity flag
\* set found an accepted row, which is still accepted and keeps its label.
C15_Witness ==
    /\ last.op = "upsert"
    /\ Len(triplets) = 2
    /\ triplets[last.arg.id].status = "accepted"
    /\ triplets[last.arg.id].relation # last.arg.relation
    /\ triplets[last.arg.id].schema_valid
    /\ last.arg.schema_valid
    /\ triplets[last.arg.id].context_sentences = [json |-> <<"c1">>]
    /\ last.arg.context_sentences = <<>>

\* C18: SetStatus(tripletId, newStatus) returns false and changes no row when
\* no triplet has the id; otherwise it returns true and the triplet's status
\* is newStatus whatever it was before, its other fields and every other
\* triplet being unchanged.
C18_SetStatus ==
    [][last'.op = "set_status" =>
        IF last'.arg.id \in 1..Len(triplets)
        THEN /\ last'.res = "True"
             /\ triplets' = [triplets EXCEPT ![last'.arg.id].status = last'.arg.status]
             /\ UNCHANGED <<sources, pending, mcqs, cache>>
        ELSE /\ last'.res = "False"
             /\ UNCHANGED <<sources, pending, triplets, mcqs, cache>>
      ]_vars

\* C18 witness: a rejected triplet set to accepted next to another triplet.
C18_Witness ==
    /\ last.op = "set_status"
    /\ last.res = "True"
    /\ last.arg.was = "rejected"
    /\ last.arg.status = "accepted"
    /\ Len(triplets) = 2
    /\ triplets[last.arg.id].status = "accepted"

C17_AggregatePartition ==
    last.op = "store_triplets" =>
        /\ last.res = "returned"
        /\ Len(last.arg.accepted) + Len(last.arg.pending) + last.arg.skipped_duplicates + last.arg.errors = Len(last.arg.extracted)
        /\ last.arg.errors = Cardinality({k \in 1..Len(last.arg.extracted) :
                "" \in {Strip(last.arg.extracted[k].subject), Strip(last.arg.extracted[k].action),
                        Strip(last.arg.extracted[k].object), Strip(last.arg.extracted[k].relation)}})
        /\ \A i \in 1..Len(triplets) : "" \notin {triplets[i].subject, triplets[i].action, triplets[i].object, triplets[i].relation}

\* C20: when the extraction call of ProcessSource fails (the pipeline raises,
\* or the call itself does), ProcessSource returns its "Pipeline error"
\* summary instead of raising, and no Triplet, MCQRecord, pending marker or
\* cached draft is created, changed or removed.
C20_ExtractionFailureContained ==
    [][(/\ last'.op = "auto_process"
        /\ \/ last'.arg.extraction = "raises"
           \/ ~Binds(RunAgentCallKwargs, RunAgentParams))
       => /\ last'.res = "Pipeline error"
          /\ UNCHANGED <<sources, pending, triplets, mcqs, cache>>
      ]_vars

\* C20 witness: ProcessSource returned the error summary after its pipeline
\* raised, for a source that holds a triplet.
C20_Witness ==
    /\ last.op = "auto_process"
    /\ last.arg.extraction = "raises"
    /\ last.res = "Pipeline error"
    /\ \E i \in 1..Len(triplets) : triplets[i].source_id = last.src

\* C21: ProcessSource and automated generation leave the pending markers and
\* the draft cache unchanged, and a pending marker disappears only in a
\* ClearPending step or in a successful AcceptDraft of its source.
C21_AutomationNeverDequeues ==
    [][/\ last'.op \in {"auto_process", "generate_mcqs"} => UNCHANGED <<pending, cache>>
       /\ \A s \in Range(pending) :
            s \notin Range(pending') =>
                \/ last'.op = "pending_clear"
                \/ last'.op = "accept_mcq" /\ last'.res = "MCQ accepted and stored" /\ last'.src = s
      ]_vars

\* C21 witness: ProcessSource has run for a source that is pending, has a
\* cached draft and holds an accepted triplet.
C21_Witness ==
    /\ last.op = "auto_process"
    /\ last.src \in Range(pending)
    /\ last.src \in DOMAIN cache
    /\ \E i \in 1..Len(triplets) : triplets[i].source_id = last.src /\ triplets[i].status = "accepted"

\* C22: a ProcessSource run that repeats the previous run (same source, same
\* extraction output) inserts no Triplet row, changes no triplet's status and
\* adds no MCQRecord for a triplet that already has one.
C22_ProcessRetrySafe ==
    [][(last'.op = "auto_process" /\ last'.arg.retry)
       => /\ Len(triplets') = Len(triplets)
          /\ \A i \in 1..Len(triplets) : triplets'[i].status = triplets[i].status
          /\ \A t \in 1..Len(triplets) :
                HasMcqFor(mcqs, t) =>
                    Cardinality({m \in 1..Len(mcqs') : mcqs'[m].triplet_id = t}) = Cardinality({m \in 1..Len(mcqs) : mcqs[m].triplet_id = t})
      ]_vars

\* C22 witness: ProcessSource was run again with an extraction output of one
\* valid triplet, for a source that holds that fact as an accepted triplet.
C22_Witness ==
    /\ last.op = "auto_process"
    /\ last.arg.retry
    /\ last.arg.extraction = "event"
    /\ last.arg.extracted = <<E1>>
    /\ \E i \in RowsOf(triplets, E1, last.src) : triplets[i].status = "accepted"

\* The result a draft handler staged in the step that produced `l`.
StagedResult(l) == IF l.op = "generate_draft" THEN l.arg.result ELSE l.arg.staged.result

DraftOps == {"generate_draft", "apply_feedback"}

\* C23: staging a draft (fresh generation or successful feedback refinement)
\* replaces the source's cached draft as a whole: afterwards the source has
\* one draft whose MCQ, triplets and visual prompt are those of the new
\* payload (an absent visual prompt is empty, not the previous one), and the
\* drafts of the other sources are unchanged.
C23_StagingReplacesWholeDraft ==
    [][(last'.op \in DraftOps /\ last'.res = "draft staged")
       => LET p == StagedResult(last').payload
              s == last'.src
          IN /\ DOMAIN cache' = DOMAIN cache \cup {s}
             /\ cache'[s].mcq = (IF "mcq" \in p.keys /\ p.mcq.keys # {} THEN p.mcq ELSE p.mcq_draft)
             /\ cache'[s].triplets = p.triplets
             /\ cache'[s].visual.optimized_visual_prompt = (IF "visual_prompt" \in p.keys THEN p.visual_prompt ELSE "")
             /\ \A o \in DOMAIN cache \ {s} : cache'[o] = cache[o]
      ]_vars

\* C23 witness: a refinement staged a payload without visual prompt over a
\* draft that had one, while another source holds a draft of its own.
C23_Witness ==
    /\ last.op = "apply_feedback"
    /\ last.res = "draft staged"
    /\ "visual_prompt" \notin last.arg.staged.result.payload.keys
    /\ last.arg.sent.visual_prompt = "v1"
    /\ \E o \in DOMAIN cache : o # last.src

\* C24: feedback refinement hands to the generation call exactly the MCQ,
\* the triplets and the visual prompt of the draft cached for the source.
C24_FeedbackSendsCachedDraft ==
    [][(last'.op = "apply_feedback" /\ last'.res \in {"draft staged", "generation failed"} /\ last'.src \in DOMAIN cache)
       => LET d == cache[last'.src]
          IN /\ last'.arg.sent.mcq = d.mcq
             /\ last'.arg.sent.triplets = d.triplets
             /\ last'.arg.sent.visual_prompt = d.visual.optimized_visual_prompt
      ]_vars

\* C24 witness: a refinement was sent the cached draft (five-option MCQ, two
\* triplets, visual prompt "v1") and staged a different one.
C24_Witness ==
    /\ last.op = "apply_feedback"
    /\ last.res = "draft staged"
    /\ last.arg.sent = [mcq |-> Mcq5, triplets |-> <<TD1, TD2>>, visual_prompt |-> "v1"]
    /\ cache[last.src].mcq # Mcq5

\* C25: a draft generation or refinement whose call fails, or returns a
\* payload without MCQ or without triplets, reports failure (a draft is only
\* reported staged for a successful result with an MCQ and triplets), and a
\* reported failure leaves the draft cache, the pending queue and the
\* database rows unchanged.
C25_FailedGenerationChangesNothing ==
    [][last'.op \in DraftOps
       => /\ last'.res = "draft staged"
                => LET r == StagedResult(last')
                   IN /\ r.success
                      /\ ("mcq" \in r.payload.keys /\ r.payload.mcq.keys # {}) \/ ("mcq_draft" \in r.payload.keys /\ r.payload.mcq_draft.keys # {})
                      /\ "triplets" \in r.payload.keys /\ r.payload.triplets # <<>>
          /\ last'.res # "draft staged" => UNCHANGED <<cache, pending, sources, triplets, mcqs>>
      ]_vars

\* C25 witness: a refinement failed for a queued source that has a draft
\* cached, and the draft is still there.
C25_Witness ==
    /\ last.op = "apply_feedback"
    /\ last.res = "generation failed"
    /\ last.src \in DOMAIN cache
    /\ last.src \in Range(pending)
    /\ last.arg.sent.mcq = cache[last.src].mcq

\* The record mcq_id, its primary triplet or its source is missing.
RegenerateTargetMissing(mcq_id) ==
    \/ mcq_id \notin 1..Len(mcqs)
    \/ mcqs[mcq_id].triplet_id \notin 1..Len(triplets)
    \/ ~SourceExists(sources, mcqs[mcq_id].source_id)

\* C27: Regenerate of a record that does not exist, or whose primary triplet
\* or source does not exist, reports "not found" (the generation call, which
\* would raise, is not made) and modifies no row.
C27_RegenerateMissingFails ==
    [][(last'.op = "regenerate_mcq" /\ last'.arg.id # 0 /\ RegenerateTargetMissing(last'.arg.id))
       => /\ last'.res \in {"MCQ not found.", "Associated triplet/source not found."}
          /\ UNCHANGED <<sources, triplets, mcqs>>
      ]_vars

\* C27 witness: Regenerate was asked for record 1 while the store holds an
\* accepted triplet of a registered source but no MCQRecord.
C27_Witness ==
    /\ last.op = "regenerate_mcq"
    /\ last.arg.id = 1
    /\ last.res = "MCQ not found."
    /\ mcqs = <<>>
    /\ \E i \in 1..Len(triplets) : triplets[i].status = "accepted"

\* C28: no operation waits on an external generation call with a database
\* session or transaction open: while draft generation awaits its call, the
\* handler's session has been released.
C28_NoSessionAcrossGenerationCall ==
    last.res = AwaitingGeneration => last.arg.db = "closed"

\* Every row of `old` is still in `new` under its id, and the rows added have
\* larger ids.
RowsKept(old, new) ==
    /\ Len(new) >= Len(old)
    /\ \A i \in 1..Len(old) : new[i].id = old[i].id
    /\ \A i \in (Len(old) + 1)..Len(new) : \A j \in 1..Len(old) : new[i].id > old[j].id

\* C29: no step deletes a Source, Triplet or MCQRecord, and ids only grow;
\* ClearPending removes every pending marker, Dequeue removes the marker of
\* the named source and no other, and neither changes a Source, Triplet or
\* MCQRecord.
C29_NoDeletesOnlyMarkers ==
    [][/\ RowsKept(sources, sources') /\ RowsKept(triplets, triplets') /\ RowsKept(mcqs, mcqs')
       /\ last'.op = "pending_clear" => pending' = <<>> /\ UNCHANGED <<sources, triplets, mcqs>>
       /\ last'.op = "remove_pending"
            => /\ Range(pending') = Range(pending) \ {last'.src}
               /\ Len(pending') = Cardinality(Range(pending'))
               /\ UNCHANGED <<sources, triplets, mcqs>>
      ]_vars

\* C29 witness: a source was dequeued while another one stays queued; both
\* Source rows and the stored triplet are still there.
C29_Witness ==
    /\ last.op = "remove_pending"
    /\ last.src \notin Range(pending)
    /\ pending # <<>>
    /\ \E i \in 1..Len(sources) : sources[i].id = last.src
    /\ Len(sources) = 2
    /\ triplets # <<>>

\* Text extraction yields no usable content: it fails, or it returns empty
\* text.
NoUsableContent(pdf_bytes) == ~pdf_bytes.readable \/ Strip(pdf_bytes.pages) = ""

\* C30: RegisterPdf of a file whose text extraction yields no usable content
\* (extraction fails, or succeeds with empty text) reports an extraction
\* error and creates neither a Source nor a pending marker.
C30_NoContentNoSource ==
    [][(last'.op = "pdf_upload" /\ NoUsableContent(last'.arg.pdf_bytes))
       => /\ last'.res = "Error selecting PDF"
          /\ UNCHANGED <<sources, pending>>
      ]_vars

\* C31: RegisterPdf of a file name whose identifier is already registered does
\* not extract again: whatever bytes are supplied it does not fail with an
\* extraction error and it returns the existing Source, leaving the rows as
\* they were.
C31_ExistingPdfNoReextraction ==
    [][(last'.op = "pdf_upload" /\ last'.arg.existing # 0)
       => /\ last'.res # "Error selecting PDF"
          /\ last'.src = last'.arg.existing
          /\ sources' = sources
      ]_vars

\* The sentence occurs in the text as a case-insensitive substring, verbatim
\* or after every white-space run of both was collapsed to one blank.
OccursIn(sentence, text) ==
    \/ Contains(Lower(sentence), Lower(text))
    \/ Contains(CollapseRuns(Lower(sentence)), CollapseRuns(Lower(text)))

\* C32: Verify marks a sentence verified iff it occurs in the source text as
\* a case-insensitive substring, verbatim or after collapsing the white-space
\* runs of both; allVerified iff every sentence is verified, verifiedCount is
\* the number of verified sentences, totalCount the number of sentences.
C32_VerifyIffSubstring ==
    last.op = "verify"
    => LET cs == last.arg.context_sentences
           r == last.arg.result
       IN /\ Len(r.results) = Len(cs)
          /\ \A i \in 1..Len(cs) : r.results[i].verified <=> OccursIn(cs[i], last.arg.source_text)
          /\ r.all_verified <=> \A i \in 1..Len(cs) : r.results[i].verified
          /\ r.verified_count = Cardinality({i \in 1..Len(cs) : r.results[i].verified})
          /\ r.total_count = Len(cs)
          /\ r.all_verified <=> r.verified_count = r.total_count

\* The sentence, without the white space at its ends, occurs in the text as a
\* case-insensitive substring, verbatim or after every white-space run of
\* both was collapsed to one blank.
TrimmedOccursIn(sentence, text) ==
    LET trimmed == StrStrip(Lower(sentence))
    IN \/ Contains(trimmed, Lower(text))
       \/ Contains(CollapseRuns(trimmed), CollapseRuns(Lower(text)))

\* C32 as amended: Verify marks a sentence verified iff the sentence with its
\* leading and trailing white space removed occurs in the source text as a
\* case-insensitive substring, verbatim or after collapsing the white-space
\* runs of both; allVerified iff every sentence is verified, verifiedCount is
\* the number of verified sentences, totalCount the number of sentences.
C32_VerifyTrimmedSubstring ==
    last.op = "verify"
    => LET cs == last.arg.context_sentences
           r == last.arg.result
       IN /\ Len(r.results) = Len(cs)
          /\ \A i \in 1..Len(cs) : r.results[i].sentence = cs[i]
          /\ \A i \in 1..Len(cs) : r.results[i].verified <=> TrimmedOccursIn(cs[i], last.arg.source_text)
          /\ r.all_verified <=> \A i \in 1..Len(cs) : r.results[i].verified
          /\ r.verified_count = Cardinality({i \in 1..Len(cs) : r.results[i].verified})
          /\ r.total_count = Len(cs)
          /\ r.all_verified <=> r.verified_count = r.total_count

\* C32 witness: a sentence in another case than the text, with white space
\* at its end, was verified, and only after the white-space runs were
\* collapsed.
C32_Witness ==
    /\ last.op = "verify"
    /\ \E i \in 1..Len(last.arg.context_sentences) :
          LET sentence == last.arg.context_sentences[i]
          IN /\ last.arg.result.results[i].verified
             /\ sentence # <<>> /\ sentence[Len(sentence)] = " "
             /\ \E k \in 1..Len(sentence) : sentence[k] = "A"
             /\ ~Contains(StrStrip(Lower(sentence)), Lower(last.arg.source_text))

\* C33: in every reachable state the status of every Triplet is one of
\* pending, accepted, rejected, whatever Upsert, bulk classification,
\* SetStatus and AcceptDraft calls were made.
C33_StatusInEnum ==
    \A i \in 1..Len(triplets) : triplets[i].status \in {"pending", "accepted", "rejected"}

\* C33 witness: bulk classification ran on a source whose stored triplet had
\* been accepted and then rejected by SetStatus.
C33_Witness ==
    /\ last.op = "store_triplets"
    /\ last.arg.extracted # <<>>
    /\ \E i \in 1..Len(triplets) : triplets[i].status = "rejected"

\* The argument was passed (not None, not empty).
Given(x) == x \notin {NoneStr, ""}

\* C35: QueryForDistractors returns at most 10 triplets, all accepted; with a
\* subject given all have that subject; with action and object both given
\* all have that action and object; with only one of the two given that
\* argument does not filter: the result has as many rows (up to 10) as there
\* are accepted triplets passing the subject filter.
C35_DistractorQuery ==
    last.op = "query_distractors"
    => LET r == last.arg.result
           a == last.arg
           candidates == {i \in 1..Len(triplets) : triplets[i].status = "accepted" /\ (Given(a.subject) => triplets[i].subject = a.subject)}
       IN /\ Len(r) <= 10
          /\ \A k \in 1..Len(r) : r[k].status = "accepted" /\ r[k] \in Range(triplets)
          /\ Given(a.subject) => \A k \in 1..Len(r) : r[k].subject = a.subject
          /\ (Given(a.action) /\ Given(a.object)) => \A k \in 1..Len(r) : r[k].action = a.action /\ r[k].object = a.object
          /\ (Given(a.action) # Given(a.object))
                => Len(r) = (IF Cardinality(candidates) < 10 THEN Cardinality(candidates) ELSE 10)

\* C35 witness: a query by subject and action alone over a store with more
\* than 10 accepted triplets of that subject and a rejected one returned 10
\* rows, one of them with another action.
C35_Witness ==
    /\ last.op = "query_distractors"
    /\ last.arg.subject = "s1" /\ last.arg.action = "a1" /\ last.arg.object = NoneStr
    /\ Len(last.arg.result) = 10
    /\ \E k \in 1..10 : last.arg.result[k].action # "a1"
    /\ Cardinality({i \in 1..Len(triplets) : triplets[i].status = "accepted" /\ triplets[i].subject = "s1"}) > 10
    /\ \E i \in 1..Len(triplets) : triplets[i].status = "rejected" /\ triplets[i].subject = "s1"

C39_IntakeQueuesAndDropsDraft ==
    [][(last'.op \in {"pdf_upload", "select_article"} /\ last'.res = "queued")
       => /\ Cardinality({i \in 1..Len(pending') : pending'[i] = last'.src}) = 1
          /\ last'.src \notin DOMAIN cache'
          /\ \A o \in DOMAIN cache : o # last'.src => o \in DOMAIN cache' /\ cache'[o] = cache[o]
      ]_vars

\* C39 witness: the first source was registered again after it had left the
\* queue: its marker is back, behind that of the second source, and it has
\* no draft.
C39_Witness ==
    /\ last.op \in {"pdf_upload", "select_article"}
    /\ last.res = "queued"
    /\ last.arg.existing = 1
    /\ last.src = 1
    /\ pending = <<2, 1>>
    /\ 1 \notin DOMAIN cache

\* C40: in an automated generation run over the accepted triplets of a
\* source, a triplet whose call fails or whose payload is invalid gets no
\* record, every triplet without record whose payload is valid gets exactly
\* one, and the reported count is the number of records created.
C40_GenerationSkipsOnlyFailures ==
    [][(last'.op = "generate_mcqs" /\ last'.res = "Generated")
       => /\ \A t \in Range(last'.arg.ids) :
                ~HasMcqFor(mcqs, t)
                    => Cardinality({m \in 1..Len(mcqs') : mcqs'[m].triplet_id = t}) = (IF t \in last'.arg.valid THEN 1 ELSE 0)
          /\ last'.arg.count = Len(mcqs') - Len(mcqs)
      ]_vars

====
